---- MODULE Spec2Model ----
(***************************************************************************)
(* bckt-photo: a photo (or a directory of photos) is turned into a post:   *)
(* metadata is read, a date, a title, a slug and tags are derived, the     *)
(* image and a thumbnail are copied into a post directory and a front      *)
(* matter document is written.                                             *)
(*                                                                         *)
(* Go strings are modelled as sequences of one-character strings, cleaned  *)
(* paths as records [abs, segs] (segs a sequence of path elements), Go     *)
(* maps as functions, time.Time as Unix seconds (UTC).                     *)
(***************************************************************************)
EXTENDS Integers, Sequences, FiniteSets, TLC

(***************************************************************************)
(* Strings                                                                 *)
(***************************************************************************)
Upper == <<"A","B","C","D","E","F","G","H","I","J","K","L","M",
           "N","O","P","Q","R","S","T","U","V","W","X","Y","Z">>

Lower == <<"a","b","c","d","e","f","g","h","i","j","k","l","m",
           "n","o","p","q","r","s","t","u","v","w","x","y","z">>

Digits == <<"0","1","2","3","4","5","6","7","8","9">>

Range(s) == {s[i] : i \in DOMAIN s}

IsDigit(c) == c \in Range(Digits)

\* the value of a decimal digit character
DigitVal(c) == (CHOOSE i \in DOMAIN Digits : Digits[i] = c) - 1

\* unicode.ToLower on the modelled alphabet
ToLowerRune(c) ==
    IF c \in Range(Upper) THEN Lower[CHOOSE i \in DOMAIN Upper : Upper[i] = c] ELSE c

\* strings.ToLower
ToLower(s) == [i \in DOMAIN s |-> ToLowerRune(s[i])]

\* strings.HasPrefix
HasPrefix(s, p) == Len(s) >= Len(p) /\ SubSeq(s, 1, Len(p)) = p

\* strings.Contains, for a non-empty substring
Contains(s, sub) == \E i \in 1..Len(s) : HasPrefix(SubSeq(s, i, Len(s)), sub)

\* strings.ReplaceAll for a non-empty old: the non-overlapping occurrences
\* of old, left to right, are replaced by new
RECURSIVE ReplaceAll(_, _, _)
ReplaceAll(s, old, new) ==
    IF Len(s) < Len(old) \/ Len(old) = 0 THEN s
    ELSE IF HasPrefix(s, old)
         THEN new \o ReplaceAll(SubSeq(s, Len(old) + 1, Len(s)), old, new)
         ELSE <<Head(s)>> \o ReplaceAll(Tail(s), old, new)

\* fmt.Sprintf("%d", n) for n >= 0
RECURSIVE NatStr(_)
NatStr(n) == IF n < 10 THEN <<Digits[n + 1]>> ELSE NatStr(n \div 10) \o <<Digits[(n % 10) + 1]>>

\* fmt.Sprintf("%d", n)
DecStr(n) == IF n < 0 THEN <<"-">> \o NatStr(-n) ELSE NatStr(n)

(***************************************************************************)
(* Paths (path/filepath on cleaned paths)                                  *)
(***************************************************************************)
Abs(segs) == [abs |-> TRUE, segs |-> segs]

Rel0(segs) == [abs |-> FALSE, segs |-> segs]

\* filepath.Base
Base(p) ==
    IF p.segs # <<>> THEN p.segs[Len(p.segs)]
    ELSE IF p.abs THEN <<"/">> ELSE <<".">>

\* filepath.Dir
Dir(p) ==
    IF p.segs = <<>> THEN p
    ELSE [p EXCEPT !.segs = SubSeq(p.segs, 1, Len(p.segs) - 1)]

\* index of the last dot of a file name, 0 if it has none
LastDot(name) ==
    IF \E i \in DOMAIN name : name[i] = "."
    THEN CHOOSE i \in DOMAIN name :
            name[i] = "." /\ \A j \in DOMAIN name : j > i => name[j] # "."
    ELSE 0

\* filepath.Ext: the suffix beginning at the final dot, empty if there is none
Ext(name) == IF LastDot(name) = 0 THEN <<>> ELSE SubSeq(name, LastDot(name), Len(name))

\* strings.TrimSuffix
TrimSuffix(s, suf) ==
    IF Len(s) >= Len(suf) /\ SubSeq(s, Len(s) - Len(suf) + 1, Len(s)) = suf
    THEN SubSeq(s, 1, Len(s) - Len(suf))
    ELSE s

\* strings.TrimPrefix
TrimPrefix(s, pre) == IF HasPrefix(s, pre) THEN SubSeq(s, Len(pre) + 1, Len(s)) ELSE s

\* length of the longest common prefix of two sequences of path elements
RECURSIVE CommonLen(_, _)
CommonLen(a, b) ==
    IF a = <<>> \/ b = <<>> \/ Head(a) # Head(b) THEN 0
    ELSE 1 + CommonLen(Tail(a), Tail(b))

\* filepath.Rel(base, targ): [err, segs]; segs = <<>> is the path "."
FilepathRel(base, targ) ==
    LET c  == CommonLen(base.segs, targ.segs)
        br == SubSeq(base.segs, c + 1, Len(base.segs))
        tr == SubSeq(targ.segs, c + 1, Len(targ.segs))
    IN  IF base = targ THEN [err |-> FALSE, segs |-> <<>>]
        ELSE IF base.abs # targ.abs THEN [err |-> TRUE, segs |-> <<>>]
        ELSE IF br # <<>> /\ Head(br) = <<".", ".">> THEN [err |-> TRUE, segs |-> <<>>]
        ELSE [err |-> FALSE, segs |-> [i \in 1..Len(br) |-> <<".", ".">>] \o tr]

\* filepath.Join(dir, elems...): empty elements are ignored
JoinSegs(p, elems) == [p EXCEPT !.segs = p.segs \o SelectSeq(elems, LAMBDA e : e # <<>>)]

(***************************************************************************)
(* Slug                                                                    *)
(***************************************************************************)
IsSlugRune(r) == r \in Range(Lower) \/ r \in Range(Digits) \/ r = "-"

\* a slug that is not lowercased
generateSlug_noLower(title, date) ==
    IF title # <<>>
    THEN SelectSeq(ReplaceAll(title, <<" ">>, <<"-">>), IsSlugRune)
    ELSE <<"p","h","o","t","o","-">> \o DecStr(date)

generateSlug(title, date) ==
    IF title # <<>>
    THEN SelectSeq(ReplaceAll(ToLower(title), <<" ">>, <<"-">>), IsSlugRune)
    ELSE <<"p","h","o","t","o","-">> \o DecStr(date)

(***************************************************************************)
(* Path components and templates                                           *)
(***************************************************************************)
K_filename == <<"f","i","l","e","n","a","m","e">>

K_basename == <<"b","a","s","e","n","a","m","e">>

K_ext == <<"e","x","t">>

\* fmt.Sprintf("dir%d", n)
DirKey(n) == <<"d","i","r">> \o DecStr(n)

\* components numbered from the base inward: dir1 is the first segment
extractPathComponents_forward(filePath, baseDir) ==
    LET filename == Base(filePath)
        ext      == Ext(filename)
        names    == (K_filename :> filename)
                    @@ (K_ext :> IF ext # <<>> THEN TrimPrefix(ext, <<".">>) ELSE <<>>)
                    @@ (K_basename :> IF ext # <<>> THEN TrimSuffix(filename, ext)
                                                    ELSE filename)
        rel      == FilepathRel(baseDir, Dir(filePath))
        parts    == rel.segs
        n        == Len(parts)
    IN  IF rel.err \/ parts = <<>> THEN names
        ELSE names @@ [k \in {DirKey(i) : i \in 1..n} |->
                          parts[CHOOSE i \in 1..n : DirKey(i) = k]]

extractPathComponents(filePath, baseDir) ==
    LET filename == Base(filePath)
        ext      == Ext(filename)
        names    == (K_filename :> filename)
                    @@ (K_ext :> IF ext # <<>> THEN TrimPrefix(ext, <<".">>) ELSE <<>>)
                    @@ (K_basename :> IF ext # <<>> THEN TrimSuffix(filename, ext)
                                                    ELSE filename)
        rel      == FilepathRel(baseDir, Dir(filePath))
        parts    == rel.segs
        n        == Len(parts)
    IN  IF rel.err \/ parts = <<>> THEN names
        ELSE names @@ [k \in {DirKey(i) : i \in 1..n} |->
                          parts[n + 1 - (CHOOSE i \in 1..n : DirKey(i) = k)]]

\* the strings reachable from the states S (a text and the keys still to
\* visit) after n more iterations of the range loop
RECURSIVE ExpandFrom(_, _, _)
ExpandFrom(S, components, n) ==
    IF n = 0 THEN {s.t : s \in S}
    ELSE ExpandFrom(
            UNION {{[t |-> ReplaceAll(s.t, <<"@">> \o k, components[k]),
                     K |-> s.K \ {k}] : k \in s.K} : s \in S},
            components, n - 1)

\* expandTemplate: the range over the map visits the keys in an order the
\* language leaves open, so the operator yields the set of possible results
expandTemplate(template, components) ==
    ExpandFrom({[t |-> template, K |-> DOMAIN components]}, components,
               Cardinality(DOMAIN components))

(***************************************************************************)
(* Metadata: a decoded container is a record [tags], the tag entries in    *)
(* the order the recursive enumeration visits them; an entry is            *)
(* [name, root, raw], root telling whether it belongs to the root IFD.     *)
(* A raw value is a record whose field t names its Go type.  NoExif is     *)
(* the nil container.                                                      *)
(***************************************************************************)
NoExif == [absent |-> TRUE]

Container(tags) == [absent |-> FALSE, tags |-> tags]

Str(s) == [t |-> "string", s |-> s]

\* fmt.Sprintf("%d/%d", numerator, denominator)
FractionStr(r) == DecStr(r.Numerator) \o <<"/">> \o DecStr(r.Denominator)

\* fmt.Sprintf("%v", valueRaw) for the types formatExifValue has no case
\* for: a slice is printed as its elements in brackets, separated by blanks
\* (the LONG values of a tag are a []uint32); any other value carries its
\* rendering in s
RECURSIVE JoinInts(_)
JoinInts(v) ==
    IF v = <<>> THEN <<>>
    ELSE IF Len(v) = 1 THEN DecStr(v[1])
    ELSE DecStr(v[1]) \o <<" ">> \o JoinInts(Tail(v))

SprintfV(valueRaw) ==
    IF valueRaw.t = "uint32s"
    THEN <<"[">> \o JoinInts(valueRaw.v) \o <<"]">>
    ELSE valueRaw.s

formatExifValue(valueRaw) ==
    CASE valueRaw.t \in {"uint16s", "ints"} ->
            IF Len(valueRaw.v) > 0 THEN DecStr(valueRaw.v[1]) ELSE <<>>
      [] valueRaw.t = "strings" ->
            IF Len(valueRaw.v) > 0 THEN valueRaw.v[1] ELSE <<>>
      [] valueRaw.t = "string" -> valueRaw.s
      [] valueRaw.t \in {"rationals", "srationals"} ->
            IF Len(valueRaw.v) > 0
            THEN IF valueRaw.v[1].Denominator = 0 THEN <<>>
                 ELSE FractionStr(valueRaw.v[1])
            ELSE <<>>
      [] OTHER -> SprintfV(valueRaw)

\* the values the visitor of findExifValue assigns to foundValue: the entries
\* named tagName whose Value() succeeds, in enumeration order
FoundValues(ifd, tagName) ==
    LET hits == SelectSeq(ifd.tags, LAMBDA e : e.name = tagName /\ e.raw.t # "error")
    IN  [i \in DOMAIN hits |-> formatExifValue(hits[i].raw)]

findExifValue(ifd, tagName) ==
    IF ifd.absent THEN <<>>
    ELSE LET vals == SelectSeq(FoundValues(ifd, tagName), LAMBDA v : v # <<>>)
         IN  IF vals = <<>> THEN <<>> ELSE vals[1]

(***************************************************************************)
(* time.Parse("2006:01:02 15:04:05", s) and time.Time.Unix                 *)
(***************************************************************************)
IsLeap(y) == y % 4 = 0 /\ (y % 100 # 0 \/ y % 400 = 0)

DaysIn(m, y) ==
    IF m = 2 THEN (IF IsLeap(y) THEN 29 ELSE 28)
    ELSE IF m \in {4, 6, 9, 11} THEN 30 ELSE 31

\* days from 1970-01-01 to the civil date y-m-d
DaysFromCivil(y, m, d) ==
    LET yy  == IF m <= 2 THEN y - 1 ELSE y
        era == yy \div 400
        yoe == yy - era * 400
        mp  == IF m > 2 THEN m - 3 ELSE m + 9
        doy == (153 * mp + 2) \div 5 + d - 1
        doe == yoe * 365 + yoe \div 4 - yoe \div 100 + doy
    IN  era * 146097 + doe - 719468

UnixOf(y, m, d, hh, mi, ss) ==
    DaysFromCivil(y, m, d) * 86400 + hh * 3600 + mi * 60 + ss

\* [ok, unix]: the year takes four digits, month, day, minute and second two,
\* the hour one or two; a fractional second after the seconds is accepted
\* and dropped by Unix(); anything left over is an error
ParseExifTime(s) ==
    LET L       == Len(s)
        D(i)    == i <= L /\ IsDigit(s[i])
        C(i, c) == i <= L /\ s[i] = c
        N2(i)   == DigitVal(s[i]) * 10 + DigitVal(s[i + 1])
        headOK  == D(1) /\ D(2) /\ D(3) /\ D(4) /\ C(5, ":") /\ D(6) /\ D(7)
                   /\ C(8, ":") /\ D(9) /\ D(10) /\ C(11, " ") /\ D(12)
        hlen    == IF D(13) THEN 2 ELSE 1
        p       == 12 + hlen
        midOK   == C(p, ":") /\ D(p + 1) /\ D(p + 2) /\ C(p + 3, ":")
                   /\ D(p + 4) /\ D(p + 5)
        q       == p + 6
        hasFrac == q + 1 <= L /\ s[q] \in {".", ","} /\ D(q + 1)
        fracEnd == IF hasFrac
                   THEN CHOOSE n \in (q + 1)..L :
                          /\ \A i \in (q + 1)..n : D(i)
                          /\ ~D(n + 1)
                   ELSE q - 1
        year    == DigitVal(s[1]) * 1000 + DigitVal(s[2]) * 100 + N2(3)
        month   == N2(6)
        day     == N2(9)
        hour    == IF hlen = 2 THEN N2(12) ELSE DigitVal(s[12])
        min     == N2(p + 1)
        sec     == N2(p + 4)
        bad     == [ok |-> FALSE, unix |-> 0]
    IN  IF ~headOK THEN bad
        ELSE IF ~midOK THEN bad
        ELSE IF fracEnd # L THEN bad
        ELSE IF month < 1 \/ month > 12 \/ hour >= 24 \/ min >= 60 \/ sec >= 60 THEN bad
        ELSE IF day < 1 \/ day > DaysIn(month, year) THEN bad
        ELSE [ok |-> TRUE, unix |-> UnixOf(year, month, day, hour, min, sec)]

\* ifd.FindTagWithName: the entries of the root IFD with that name
FindTagWithName(ifd, tagName) ==
    SelectSeq(ifd.tags, LAMBDA e : e.root /\ e.name = tagName)

\* the date extractDate finds in the container: [found, unix]; found is
\* false on every path that ends in time.Now()
ExifDate(ifd) ==
    IF ifd.absent THEN [found |-> FALSE, unix |-> 0]
    ELSE LET r1      == FindTagWithName(ifd, "DateTime")
             results == IF r1 = <<>> THEN FindTagWithName(ifd, "DateTimeOriginal") ELSE r1
         IN  IF results = <<>> THEN [found |-> FALSE, unix |-> 0]
             ELSE IF results[1].raw.t # "string" THEN [found |-> FALSE, unix |-> 0]
             ELSE IF ~ParseExifTime(results[1].raw.s).ok THEN [found |-> FALSE, unix |-> 0]
             ELSE [found |-> TRUE, unix |-> ParseExifTime(results[1].raw.s).unix]

\* an extractDate that gives the zero time when the metadata has no date
extractDate_zero(ifd, clock) == IF ExifDate(ifd).found THEN ExifDate(ifd).unix ELSE 0

\* extractDate(ifd) when time.Now() would read clock
extractDate(ifd, clock) == IF ExifDate(ifd).found THEN ExifDate(ifd).unix ELSE clock

(***************************************************************************)
(* Friendly values: fmt.Sscanf(value, "%d/%d", ...) and fmt's %.1f         *)
(***************************************************************************)
IsSpaceRune(c) == c \in {" ", "\t"}

\* the first position at or after i that holds no space or tab
RECURSIVE SkipSpace(_, _)
SkipSpace(s, i) == IF i <= Len(s) /\ IsSpaceRune(s[i]) THEN SkipSpace(s, i + 1) ELSE i

\* the first position at or after i that holds no digit and no underscore
RECURSIVE SkipDigits(_, _)
SkipDigits(s, i) ==
    IF i <= Len(s) /\ (IsDigit(s[i]) \/ s[i] = "_") THEN SkipDigits(s, i + 1) ELSE i

\* the number written by a sequence of decimal digits
RECURSIVE NatOf(_)
NatOf(ds) == IF ds = <<>> THEN 0 ELSE NatOf(SubSeq(ds, 1, Len(ds) - 1)) * 10 + DigitVal(ds[Len(ds)])

\* the verb %d of Sscanf at position i: [ok, val, next].  Leading blanks are
\* skipped, a sign is accepted, digits and underscores make the token, and
\* strconv.ParseInt(token, 10, 64) rejects a token holding an underscore
ScanInt(s, i) ==
    LET a    == SkipSpace(s, i)
        sgn  == a <= Len(s) /\ s[a] \in {"+", "-"}
        b    == IF sgn THEN a + 1 ELSE a
        e    == SkipDigits(s, b)
        tok  == SubSeq(s, b, e - 1)
        bad  == [ok |-> FALSE, val |-> 0, next |-> i]
    IN  IF a > Len(s) \/ s[a] = "\n" THEN bad
        ELSE IF e = b THEN bad
        ELSE IF \E j \in DOMAIN tok : tok[j] = "_" THEN bad
        ELSE [ok |-> TRUE, next |-> e,
              val |-> IF sgn /\ s[a] = "-" THEN -NatOf(tok) ELSE NatOf(tok)]

\* fmt.Sscanf(value, "%d/%d", &numerator, &denominator): [ok, num, den];
\* input left over after the second number is not an error
ScanFraction(value) ==
    LET n   == ScanInt(value, 1)
        d   == ScanInt(value, n.next + 1)
        bad == [ok |-> FALSE, num |-> 0, den |-> 0]
    IN  IF ~n.ok THEN bad
        ELSE IF n.next > Len(value) \/ value[n.next] # "/" THEN bad
        ELSE IF ~d.ok THEN bad
        ELSE [ok |-> TRUE, num |-> n.val, den |-> d.val]

AbsVal(n) == IF n < 0 THEN -n ELSE n

\* the exponent L with 2^L <= num/den < 2^(L+1), for num, den > 0
RECURSIVE Log2Floor(_, _)
Log2Floor(num, den) ==
    IF num >= 2 * den THEN 1 + Log2Floor(num, 2 * den)
    ELSE IF num < den THEN Log2Floor(2 * num, den) - 1
    ELSE 0

\* whether the float64 nearest to A/20 (A odd, no multiple of 5) lies above
\* A/20: the 53-bit significand is A * 2^k / 5 rounded, with k = 50 - L
DoubleAbove(A) ==
    LET k   == 50 - Log2Floor(A, 20)
        pw  == <<1, 2, 4, 3>>[(k % 4) + 1]
    IN  ((A % 5) * pw) % 5 \in {3, 4}

\* a formatting that cuts the quotient after one decimal
FormatF1_cut(n, d) ==
    LET neg  == (n < 0) # (d < 0)
        m    == (10 * AbsVal(n)) \div AbsVal(d)
    IN  (IF neg THEN <<"-">> ELSE <<>>) \o NatStr(m \div 10) \o <<".">> \o NatStr(m % 10)

\* fmt.Sprintf("%.1f", float64(n) / float64(d)) for d # 0: the shortest
\* rounding of the quotient's float64 to one decimal, ties to even
FormatF1(n, d) ==
    LET neg  == (n < 0) # (d < 0)
        a    == AbsVal(n)
        b    == AbsVal(d)
        t    == (10 * a) \div b
        r    == (10 * a) % b
        up   == IF 2 * r > b THEN TRUE
                ELSE IF 2 * r < b THEN FALSE
                ELSE IF (2 * t + 1) % 5 = 0 THEN t % 2 = 1
                ELSE DoubleAbove(2 * t + 1)
        m    == IF up THEN t + 1 ELSE t
    IN  (IF neg THEN <<"-">> ELSE <<>>) \o NatStr(m \div 10) \o <<".">> \o NatStr(m % 10)

formatFriendlyValue(fieldName, value) ==
    LET f == ScanFraction(value)
    IN  IF f.ok /\ f.den # 0
        THEN CASE fieldName = "aperture" -> <<"f", "/">> \o FormatF1(f.num, f.den)
               [] fieldName = "focal_length" -> FormatF1(f.num, f.den) \o <<"m", "m">>
               [] fieldName = "exposure" -> value \o <<"s">>
               [] OTHER -> value
        ELSE value

(***************************************************************************)
(* Field resolution                                                        *)
(***************************************************************************)
\* an inner loop that does not stop at the first value: the last candidate
\* with a value wins
RECURSIVE FirstValue_last(_, _)
FirstValue_last(ifd, exifFields) ==
    IF exifFields = <<>> THEN <<>>
    ELSE IF FirstValue_last(ifd, Tail(exifFields)) # <<>>
         THEN FirstValue_last(ifd, Tail(exifFields))
         ELSE findExifValue(ifd, Head(exifFields))

\* the inner loop of extractTags and extractExifFields: the value of the
\* first candidate tag whose normalized value is not empty, else empty
RECURSIVE FirstValue(_, _)
FirstValue(ifd, exifFields) ==
    IF exifFields = <<>> THEN <<>>
    ELSE IF findExifValue(ifd, Head(exifFields)) # <<>>
         THEN findExifValue(ifd, Head(exifFields))
         ELSE FirstValue(ifd, Tail(exifFields))

\* all the orders in which a slice can list the members of a set
RECURSIVE Orders(_)
Orders(S) ==
    IF S = {} THEN {<<>>}
    ELSE UNION {{<<x>> \o o : o \in Orders(S \ {x})} : x \in S}

\* the set the map tagSet of extractTags holds after its loop
TagSet(ifd, exifToTags) ==
    {IF formatFriendlyValue(f, FirstValue(ifd, exifToTags[f])) # <<>>
     THEN formatFriendlyValue(f, FirstValue(ifd, exifToTags[f]))
     ELSE FirstValue(ifd, exifToTags[f]) :
        f \in {g \in DOMAIN exifToTags : FirstValue(ifd, exifToTags[g]) # <<>>}}

\* an extractTags that appends one tag per resolved field, duplicates kept
extractTags_perField(ifd, exifToTags) ==
    IF ifd.absent \/ DOMAIN exifToTags = {} THEN {<<>>}
    ELSE {[i \in DOMAIN o |-> formatFriendlyValue(o[i], FirstValue(ifd, exifToTags[o[i]]))] :
             o \in Orders({g \in DOMAIN exifToTags : FirstValue(ifd, exifToTags[g]) # <<>>})}

\* extractTags: the slices it can return (nil is the empty slice); the set
\* is turned into a slice in the map's iteration order
extractTags(ifd, exifToTags) ==
    IF ifd.absent \/ DOMAIN exifToTags = {} THEN {<<>>}
    ELSE Orders(TagSet(ifd, exifToTags))

\* one iteration of the loop of extractExifFields, for fieldName
PutField(fields, ifd, exifToTags, fieldName) ==
    LET value    == FirstValue(ifd, exifToTags[fieldName])
        friendly == formatFriendlyValue(fieldName, value)
        f1       == (fieldName :> value) @@ fields
    IN  IF value = <<>> THEN fields
        ELSE IF friendly # <<>> /\ friendly # value
             THEN ((fieldName \o "_friendly") :> friendly) @@ f1
             ELSE f1

\* the maps reachable from the states S (a map and the logical fields still
\* to visit) after n more iterations
RECURSIVE FieldsFrom(_, _, _, _)
FieldsFrom(S, ifd, exifToTags, n) ==
    IF n = 0 THEN {s.m : s \in S}
    ELSE FieldsFrom(
            UNION {{[m |-> PutField(s.m, ifd, exifToTags, k), K |-> s.K \ {k}] :
                       k \in s.K} : s \in S},
            ifd, exifToTags, n - 1)

\* extractExifFields: the maps it can return (nil is the empty map), one
\* per order in which the range visits the mapping
extractExifFields(ifd, exifToTags) ==
    IF ifd.absent \/ DOMAIN exifToTags = {} THEN {<<>>}
    ELSE FieldsFrom({[m |-> <<>>, K |-> DOMAIN exifToTags]}, ifd, exifToTags,
                    Cardinality(DOMAIN exifToTags))

(***************************************************************************)
(* Inputs of a run: the command line, the configuration file and the       *)
(* files found under the input path                                        *)
(***************************************************************************)
T_photos == <<"p","h","o","t","o","s">>

T_2025 == <<"2","0","2","5">>

T_vacation == <<"v","a","c","a","t","i","o","n">>

T_beach == <<"b","e","a","c","h">>

T_posts == <<"p","o","s","t","s">>

T_pics == <<"p","i","c","s">>

DateA == <<"2","0","2","5",":","0","1",":","0","2"," ","1","5",":","0","4",":","0","5">>

DateB == <<"2","0","2","5",":","0","1",":","0","2"," ","1","5",":","0","4",":","0","6">>

Tag(name, root, raw) == [name |-> name, root |-> root, raw |-> raw]

Rat(n, d) == [Numerator |-> n, Denominator |-> d]

\* DateTime in the root IFD, both ISO tags, an aperture
ExifFull ==
    Container(<< Tag("DateTime", TRUE, Str(DateA)),
                 Tag("ISOSpeedRatings", FALSE, [t |-> "uint16s", v |-> <<100>>]),
                 Tag("PhotographicSensitivity", FALSE, [t |-> "uint16s", v |-> <<400>>]),
                 Tag("FNumber", FALSE, [t |-> "rationals", v |-> <<Rat(28, 5)>>]) >>)

\* no DateTime in the root IFD, a first ISO tag without a usable value,
\* the second ISO tag only further on
ExifSparse ==
    Container(<< Tag("ISOSpeedRatings", FALSE, [t |-> "uint16s", v |-> <<>>]),
                 Tag("DateTimeOriginal", FALSE, Str(DateB)),
                 Tag("FNumber", FALSE, [t |-> "rationals", v |-> <<Rat(8, 0)>>]),
                 Tag("PhotographicSensitivity", FALSE, [t |-> "uint16s", v |-> <<400>>]) >>)

\* the same second as ExifFull
ExifTwin ==
    Container(<< Tag("DateTime", TRUE, Str(DateA)),
                 Tag("PhotographicSensitivity", FALSE, [t |-> "strings", v |-> <<<<"4","0","0">>>>]) >>)

\* what the walk (or the stat of a single file) finds: err is the error the
\* walk reports for the entry, exifErr whether readExifData fails, exif the
\* container it returns otherwise
File(path, exifErr, exif) ==
    [path |-> path, isDir |-> FALSE, err |-> FALSE, exifErr |-> exifErr, exif |-> exif]

Directory(path) ==
    [path |-> path, isDir |-> TRUE, err |-> FALSE, exifErr |-> FALSE, exif |-> NoExif]

VacationDir == Abs(<<T_photos, T_2025, T_vacation>>)

\* /photos/2025/vacation, in the lexical order of filepath.Walk
TreeVacation ==
    << Directory(VacationDir),
       Directory(JoinSegs(VacationDir, <<T_beach>>)),
       File(JoinSegs(VacationDir, <<T_beach, <<"s","u","n","s","e","t",".","J","P","G">>>>), FALSE, ExifFull),
       File(JoinSegs(VacationDir, <<<<"b","e","a","c","h",".","j","p","g">>>>), TRUE, NoExif),
       File(JoinSegs(VacationDir, <<<<"n","o","t","e","s",".","t","x","t">>>>), TRUE, NoExif),
       File(JoinSegs(VacationDir, <<<<"p","i","e","r",".","j","p","g">>>>), FALSE, ExifTwin) >>

PicsDir == Rel0(<<T_pics>>)

\* pics, a relative input directory
TreePics ==
    << Directory(PicsDir),
       File(JoinSegs(PicsDir, <<<<".","j","p","g">>>>), FALSE, ExifSparse),
       File(JoinSegs(PicsDir, <<<<"a",".","p","n","g">>>>), FALSE, NoExif) >>

\* a single image file given on the command line
TreeSingle ==
    << File(JoinSegs(VacationDir, <<<<"b","e","a","c","h",".","j","p","g">>>>), FALSE, ExifFull) >>

\* an entry filepath.Walk could not read: the callback gets its error
Unreadable(path) ==
    [path |-> path, isDir |-> TRUE, err |-> TRUE, exifErr |-> FALSE, exif |-> NoExif]

\* pics with a subdirectory the walk cannot read between two images
TreeBroken ==
    << Directory(PicsDir),
       File(JoinSegs(PicsDir, <<<<"a",".","p","n","g">>>>), FALSE, NoExif),
       Unreadable(JoinSegs(PicsDir, <<<<"b">>>>)),
       File(JoinSegs(PicsDir, <<<<"c",".","j","p","g">>>>), FALSE, ExifFull) >>

Inputs == {TreeVacation, TreePics, TreeSingle, TreeBroken}

\* the values of the flag --posts (its default is "posts")
PostsDirFlags == {Rel0(<<T_posts>>), Abs(<<T_photos>>)}

\* the values of the flag --title
TitleFlags == {<<>>, <<"M","y"," ","P","i","c","!">>, <<"!","?">>, <<"@","d","i","r","2"," ","@","d","i","r","1"," ","-"," ","@","b","a","s","e","n","a","m","e">>}

\* the values of the flag --tags
TagFlags == {<<>>, <<<<"t","r","a","v","e","l">>, <<"@","d","i","r","1">>>>, <<<<"@","b","a","s","e","n","a","m","e">>, <<"4","0","0">>>>}

Cfg(exifToTags, dir, title, tags) ==
    [ExifToTags |-> exifToTags, PostsDir |-> dir,
     Metadata |-> [Title |-> title, Tags |-> tags]]

\* the Config run() uses when the file cannot be loaded
EmptyConfig == Cfg(<<>>, <<>>, <<>>, <<>>)

CfgExif ==
    Cfg(("iso" :> <<"ISOSpeedRatings", "PhotographicSensitivity">>)
        @@ ("aperture" :> <<"FNumber">>),
        <<>>, <<>>, <<>>)

CfgTemplates ==
    Cfg(("iso" :> <<"PhotographicSensitivity">>),
        <<Abs(<<T_photos, T_2025, T_posts>>)>>,
        <<"@","d","i","r","1"," ","@","f","i","l","e","n","a","m","e">>, <<<<"@","d","i","r","2">>, <<>>>>)

\* the configuration file: unreadable or malformed (err), or its content
ConfigFiles ==
    {[err |-> TRUE, config |-> EmptyConfig],
     [err |-> FALSE, config |-> CfgExif],
     [err |-> FALSE, config |-> CfgTemplates]}

\* Unix time of the first clock reading of a run
Epoch == 1735830245

\* how many seconds the clock may advance during a run
MaxTicks == 1

(***************************************************************************)
(* The state of a run                                                      *)
(***************************************************************************)
VARIABLES
    tree,       \* the entries under the input path, tree[1] the path itself
    title,      \* flag --title
    extraTags,  \* flag --tags
    cfgFile,    \* the configuration file
    postsDir,   \* global postsDir: flag --posts, then the config's posts_dir
    config,     \* the Config in use
    now,        \* the last reading of the wall clock, Unix seconds
    pc,         \* "start", "walk" (in processDirectory), "single", "done"
    idx,        \* the entry the walk is at
    step,       \* position in processSinglePhoto: "none", "resolve", "mkdir",
                \* "copy", "thumb", "doc"
    cur,        \* the locals of the running processSinglePhoto
    fsDirs,     \* the directories that exist under the posts directory
    fsFiles,    \* the files that exist there: path -> content
    writes,     \* the file system calls made so far, in order
    results,    \* what each processSinglePhoto call returned, in order
    ret         \* what run() returned, once pc = "done"

vars == <<tree, title, extraTags, cfgFile, postsDir, config, now, pc, idx, step,
          cur, fsDirs, fsFiles, writes, results, ret>>

inputs == <<tree, title, extraTags, cfgFile>>

NoPhoto == [path |-> Rel0(<<>>)]

Init ==
    /\ tree \in Inputs
    /\ title \in TitleFlags
    /\ extraTags \in TagFlags
    /\ cfgFile \in ConfigFiles
    /\ postsDir \in PostsDirFlags
    /\ config = EmptyConfig
    /\ now = Epoch
    /\ pc = "start"
    /\ idx = 1
    /\ step = "none"
    /\ cur = NoPhoto
    /\ fsDirs = {}
    /\ fsFiles = <<>>
    /\ writes = <<>>
    /\ results = <<>>
    /\ ret = "running"

\* flag --image
imageFile == tree[1].path

imageExtensions ==
    {<<".","j","p","g">>, <<".","j","p","e","g">>, <<".","p","n","g">>, <<".","g","i","f">>, <<".","b","m","p">>, <<".","t","i","f","f">>, <<".","t","i","f">>, <<".","w","e","b","p">>}

\* an extension check that does not fold the case
isImageFile_exact(path) == Ext(Base(path)) \in imageExtensions

isImageFile(path) == ToLower(Ext(Base(path))) \in imageExtensions

(***************************************************************************)
(* processSinglePhoto, up to the first output step                         *)
(***************************************************************************)
\* a title resolution that prefers the config's template to the flag
FinalTitles_configFirst(photoTitle, cfg, pathComponents) ==
    IF cfg.Metadata.Title # <<>>
    THEN expandTemplate(cfg.Metadata.Title, pathComponents)
    ELSE IF photoTitle # <<>>
         THEN IF Contains(photoTitle, <<"@">>)
              THEN expandTemplate(photoTitle, pathComponents)
              ELSE {photoTitle}
         ELSE {<<>>}

\* the final title: the flag first, then the config's template
FinalTitles(photoTitle, cfg, pathComponents) ==
    IF photoTitle # <<>>
    THEN IF Contains(photoTitle, <<"@">>)
         THEN expandTemplate(photoTitle, pathComponents)
         ELSE {photoTitle}
    ELSE IF cfg.Metadata.Title # <<>>
         THEN expandTemplate(cfg.Metadata.Title, pathComponents)
         ELSE {<<>>}

\* what the loop over the --tags values can append
RECURSIVE CliTags(_, _)
CliTags(tagArgs, pathComponents) ==
    IF tagArgs = <<>> THEN {<<>>}
    ELSE LET tag   == Head(tagArgs)
             heads == IF Contains(tag, <<"@">>)
                      THEN {IF e # <<>> THEN <<e>> ELSE <<>> :
                               e \in expandTemplate(tag, pathComponents)}
                      ELSE {<<tag>>}
         IN  {h \o t : h \in heads, t \in CliTags(Tail(tagArgs), pathComponents)}

\* what the loop over the config's tag templates can append
RECURSIVE ConfigTags(_, _)
ConfigTags(templates, pathComponents) ==
    IF templates = <<>> THEN {<<>>}
    ELSE LET heads == {IF e # <<>> THEN <<e>> ELSE <<>> :
                          e \in expandTemplate(Head(templates), pathComponents)}
         IN  {h \o t : h \in heads, t \in ConfigTags(Tail(templates), pathComponents)}

\* a tag list with the config's tags ahead of those of the command line
MergeTags_configFirst(exifTags, cliTags, configTags) == exifTags \o configTags \o cliTags

\* the tag list of processSinglePhoto: the tags from the metadata, then what
\* the loop over --tags appended, then what the loop over the config's
\* templates appended
MergeTags(exifTags, cliTags, configTags) == exifTags \o cliTags \o configTags

\* readExifData, and the nil the caller puts in place of a failure
ExifDataOf(file) == IF file.exifErr THEN NoExif ELSE file.exif

\* extractDate reads the clock when it finds no date; the clock never runs
\* backwards
Resolve ==
    /\ step = "resolve"
    /\ now' \in IF ExifDate(ExifDataOf(cur.file)).found THEN {now}
                 ELSE now..(Epoch + MaxTicks)
    /\ LET pathComponents == extractPathComponents(cur.path, postsDir)
           exifData       == ExifDataOf(cur.file)
           postDate       == extractDate(exifData, now')
       IN  \E finalTitle \in FinalTitles(title, config, pathComponents),
              exifTags \in extractTags(exifData, config.ExifToTags),
              cliTags \in CliTags(extraTags, pathComponents),
              configTags \in ConfigTags(config.Metadata.Tags, pathComponents),
              exifFields \in extractExifFields(exifData, config.ExifToTags) :
                cur' = [path |-> cur.path, relativeDir |-> cur.relativeDir,
                        file |-> cur.file, photo |-> cur.photo,
                        pathComponents |-> pathComponents, exifData |-> exifData,
                        finalTitle |-> finalTitle, postDate |-> postDate,
                        slug |-> generateSlug(finalTitle, postDate),
                        exifTags |-> exifTags,
                        tags |-> MergeTags(exifTags, cliTags, configTags),
                        exifFields |-> exifFields]
    /\ step' = "mkdir"
    /\ UNCHANGED <<inputs, postsDir, config, pc, idx, fsDirs, fsFiles, writes,
                   results, ret>>

(***************************************************************************)
(* processSinglePhoto, the output steps                                    *)
(***************************************************************************)
\* a post directory that leaves the relative directory out
PostDirPath_flat(dir, relativeDir, slug) == JoinSegs(dir, <<slug>>)

\* the path createPostDirectoryWithPath makes
PostDirPath(dir, relativeDir, slug) ==
    IF relativeDir # <<>>
    THEN JoinSegs(dir, relativeDir \o <<slug>>)
    ELSE JoinSegs(dir, <<slug>>)

\* a path and the directories above it
Prefixes(p) == {[p EXCEPT !.segs = SubSeq(p.segs, 1, n)] : n \in 0..Len(p.segs)}

postDir == PostDirPath(postsDir, cur.relativeDir, cur.slug)

imageName == Base(cur.path)

thumbnailName ==
    TrimSuffix(imageName, Ext(imageName)) \o <<"-","t","h","u","m","b">> \o Ext(imageName)

destImage == JoinSegs(postDir, <<imageName>>)

thumbnailPath == JoinSegs(postDir, <<thumbnailName>>)

mdFile == JoinSegs(postDir, <<cur.slug \o <<".","m","d">>>>)

\* the front matter createMarkdownFile writes; its extraTags argument is nil
FrontMatter(docTitle, date, slug, tags, attachedFiles, exifFields, moreTags) ==
    [Title |-> docTitle, Date |-> date, Slug |-> slug, Tags |-> tags \o moreTags,
     Type |-> "photo", Attached |-> attachedFiles,
     Image |-> IF Len(attachedFiles) > 0 THEN attachedFiles[1] ELSE <<>>,
     Thumb |-> IF Len(attachedFiles) > 1 THEN attachedFiles[2] ELSE <<>>,
     Extra |-> exifFields]

Call(op, path, outcome) ==
    [photo |-> cur.photo, op |-> op, path |-> path, outcome |-> outcome]

\* a callback that hands the photo's error to the walk, which then stops
Return_abort(err) ==
    /\ results' = Append(results, [photo |-> cur.photo, path |-> cur.path, err |-> err])
    /\ step' = "none"
    /\ cur' = NoPhoto
    /\ IF pc = "walk" /\ err = ""
       THEN idx' = idx + 1 /\ UNCHANGED <<pc, ret>>
       ELSE pc' = "done" /\ ret' = err /\ UNCHANGED idx

\* processSinglePhoto returns err ("" is nil): the walk's callback logs it
\* and goes on with the next entry, run() returns it
Return(err) ==
    /\ results' = Append(results, [photo |-> cur.photo, path |-> cur.path, err |-> err])
    /\ step' = "none"
    /\ cur' = NoPhoto
    /\ IF pc = "walk"
       THEN idx' = idx + 1 /\ UNCHANGED <<pc, ret>>
       ELSE pc' = "done" /\ ret' = err /\ UNCHANGED idx

CreatePostDir ==
    /\ step = "mkdir"
    /\ \E outcome \in {"ok", "fail"} :
         /\ outcome = "ok" => Prefixes(postDir) \cap DOMAIN fsFiles = {}
         /\ writes' = Append(writes, Call("mkdir", postDir, outcome))
         /\ IF outcome = "ok"
            THEN /\ fsDirs' = fsDirs \cup Prefixes(postDir)
                 /\ step' = "copy"
                 /\ UNCHANGED <<cur, results, pc, idx, ret>>
            ELSE /\ Return("error creating post directory")
                 /\ UNCHANGED fsDirs
    /\ UNCHANGED <<inputs, postsDir, config, now, fsFiles>>

\* a file system call that, when it fails, removes the files the photo has
\* made so far
WriteFile_rollback(op, dst, content, outcome) ==
    /\ outcome # "fail" => dst \notin fsDirs
    /\ writes' = Append(writes, Call(op, dst, outcome))
    /\ fsFiles' = IF outcome # "ok"
                  THEN [q \in {q \in DOMAIN fsFiles : fsFiles[q].photo # cur.photo}
                          |-> fsFiles[q]]
                  ELSE (dst :> [content |-> content, complete |-> TRUE,
                                photo |-> cur.photo]) @@ fsFiles

\* a file system call that creates dst: it fails before creating it, fails
\* after creating it, or completes
WriteFile(op, dst, content, outcome) ==
    /\ outcome # "fail" => dst \notin fsDirs
    /\ writes' = Append(writes, Call(op, dst, outcome))
    /\ fsFiles' = IF outcome = "fail" THEN fsFiles
                  ELSE (dst :> [content |-> content, complete |-> outcome = "ok",
                                photo |-> cur.photo]) @@ fsFiles

\* a copy step whose failure is passed over: the thumbnail is made all the same
CopyImage_goOn ==
    /\ step = "copy"
    /\ \E outcome \in {"ok", "fail", "partial"} :
         /\ WriteFile("copy", destImage, [image |-> cur.path], outcome)
         /\ step' = "thumb" /\ UNCHANGED <<cur, results, pc, idx, ret>>
    /\ UNCHANGED <<inputs, postsDir, config, now, fsDirs>>

CopyImage ==
    /\ step = "copy"
    /\ \E outcome \in {"ok", "fail", "partial"} :
         /\ WriteFile("copy", destImage, [image |-> cur.path], outcome)
         /\ IF outcome = "ok"
            THEN step' = "thumb" /\ UNCHANGED <<cur, results, pc, idx, ret>>
            ELSE Return("error copying image")
    /\ UNCHANGED <<inputs, postsDir, config, now, fsDirs>>

\* a thumbnail step whose failure is passed over: the document is written
\* all the same
CreateThumbnail_goOn ==
    /\ step = "thumb"
    /\ \E outcome \in {"ok", "fail", "partial"} :
         /\ WriteFile("thumb", thumbnailPath, [thumbOf |-> cur.path], outcome)
         /\ step' = "doc" /\ UNCHANGED <<cur, results, pc, idx, ret>>
    /\ UNCHANGED <<inputs, postsDir, config, now, fsDirs>>

CreateThumbnail ==
    /\ step = "thumb"
    /\ \E outcome \in {"ok", "fail", "partial"} :
         /\ WriteFile("thumb", thumbnailPath, [thumbOf |-> cur.path], outcome)
         /\ IF outcome = "ok"
            THEN step' = "doc" /\ UNCHANGED <<cur, results, pc, idx, ret>>
            ELSE Return("error creating thumbnail")
    /\ UNCHANGED <<inputs, postsDir, config, now, fsDirs>>

\* a document step that hands the --tags values to createMarkdownFile again
CreateMarkdownFile_extraTags ==
    /\ step = "doc"
    /\ \E outcome \in {"ok", "fail", "partial"} :
         /\ WriteFile("doc", mdFile,
                      FrontMatter(cur.finalTitle, cur.postDate, cur.slug, cur.tags,
                                  <<imageName, thumbnailName>>, cur.exifFields, extraTags),
                      outcome)
         /\ Return(IF outcome = "ok" THEN "" ELSE "error creating markdown file")
    /\ UNCHANGED <<inputs, postsDir, config, now, fsDirs>>

CreateMarkdownFile ==
    /\ step = "doc"
    /\ \E outcome \in {"ok", "fail", "partial"} :
         /\ WriteFile("doc", mdFile,
                      FrontMatter(cur.finalTitle, cur.postDate, cur.slug, cur.tags,
                                  <<imageName, thumbnailName>>, cur.exifFields, <<>>),
                      outcome)
         /\ Return(IF outcome = "ok" THEN "" ELSE "error creating markdown file")
    /\ UNCHANGED <<inputs, postsDir, config, now, fsDirs>>

(***************************************************************************)
(* run and processDirectory                                                *)
(***************************************************************************)
Start(path, relativeDir, file, photo) ==
    [path |-> path, relativeDir |-> relativeDir, file |-> file, photo |-> photo]

\* a run() that gives up when the config cannot be loaded
Run_fatal ==
    /\ pc = "start"
    /\ config' = IF cfgFile.err THEN EmptyConfig ELSE cfgFile.config
    /\ postsDir' = IF config'.PostsDir # <<>> THEN config'.PostsDir[1] ELSE postsDir
    /\ \E statErr \in BOOLEAN :
         IF cfgFile.err
         THEN pc' = "done" /\ ret' = "error loading config" /\ UNCHANGED <<step, cur>>
         ELSE IF statErr
         THEN pc' = "done" /\ ret' = "error accessing path" /\ UNCHANGED <<step, cur>>
         ELSE IF tree[1].isDir
         THEN pc' = "walk" /\ UNCHANGED <<ret, step, cur>>
         ELSE /\ pc' = "single"
              /\ step' = "resolve"
              /\ cur' = Start(imageFile, <<>>, tree[1], 1)
              /\ UNCHANGED ret
    /\ UNCHANGED <<inputs, now, idx, fsDirs, fsFiles, writes, results>>

\* run(): the config is loaded (or replaced by an empty one), posts_dir
\* overrides the flag, the input path is examined
Run ==
    /\ pc = "start"
    /\ config' = IF cfgFile.err THEN EmptyConfig ELSE cfgFile.config
    /\ postsDir' = IF config'.PostsDir # <<>> THEN config'.PostsDir[1] ELSE postsDir
    /\ \E statErr \in BOOLEAN :
         IF statErr
         THEN pc' = "done" /\ ret' = "error accessing path" /\ UNCHANGED <<step, cur>>
         ELSE IF tree[1].isDir
         THEN pc' = "walk" /\ UNCHANGED <<ret, step, cur>>
         ELSE /\ pc' = "single"
              /\ step' = "resolve"
              /\ cur' = Start(imageFile, <<>>, tree[1], 1)
              /\ UNCHANGED ret
    /\ UNCHANGED <<inputs, now, idx, fsDirs, fsFiles, writes, results>>

\* a callback that passes over the entries the walk could not read
WalkFn_skip ==
    /\ pc = "walk" /\ step = "none" /\ idx <= Len(tree)
    /\ LET e       == tree[idx]
           relPath == FilepathRel(imageFile, e.path)
       IN  IF e.err \/ e.isDir \/ ~isImageFile(e.path)
           THEN idx' = idx + 1 /\ UNCHANGED <<pc, ret, step, cur>>
           ELSE /\ step' = "resolve"
                /\ cur' = Start(e.path, Dir(Rel0(relPath.segs)).segs, e, idx)
                /\ UNCHANGED <<pc, ret, idx>>
    /\ UNCHANGED <<inputs, postsDir, config, now, fsDirs, fsFiles, writes, results>>

\* the callback processDirectory hands to filepath.Walk, up to its call of
\* processSinglePhoto
WalkFn ==
    /\ pc = "walk" /\ step = "none" /\ idx <= Len(tree)
    /\ LET e       == tree[idx]
           relPath == FilepathRel(imageFile, e.path)
       IN  IF e.err \/ (~e.isDir /\ isImageFile(e.path) /\ relPath.err)
           THEN pc' = "done" /\ ret' = "error walking directory"
                /\ UNCHANGED <<idx, step, cur>>
           ELSE IF e.isDir \/ ~isImageFile(e.path)
           THEN idx' = idx + 1 /\ UNCHANGED <<pc, ret, step, cur>>
           ELSE /\ step' = "resolve"
                /\ cur' = Start(e.path, Dir(Rel0(relPath.segs)).segs, e, idx)
                /\ UNCHANGED <<pc, ret, idx>>
    /\ UNCHANGED <<inputs, postsDir, config, now, fsDirs, fsFiles, writes, results>>

\* filepath.Walk has delivered every entry: processDirectory returns nil
WalkDone ==
    /\ pc = "walk" /\ step = "none" /\ idx > Len(tree)
    /\ pc' = "done"
    /\ ret' = ""
    /\ UNCHANGED <<inputs, postsDir, config, now, idx, step, cur, fsDirs, fsFiles,
                   writes, results>>

Next ==
    \/ Run
    \/ WalkFn
    \/ WalkDone
    \/ Resolve
    \/ CreatePostDir
    \/ CopyImage
    \/ CreateThumbnail
    \/ CreateMarkdownFile

Spec == Init /\ [][Next]_vars

(***************************************************************************)
(* The pure functions on their own: a call with arguments drawn from       *)
(* bounded sets (pc = "unit", step the function called, cur its arguments  *)
(* and then its result)                                                    *)
(***************************************************************************)
Idle ==
    /\ tree = TreeSingle
    /\ title = <<>>
    /\ extraTags = <<>>
    /\ cfgFile = [err |-> TRUE, config |-> EmptyConfig]
    /\ postsDir = Rel0(<<T_posts>>)
    /\ config = EmptyConfig
    /\ now = Epoch
    /\ pc = "unit"
    /\ idx = 1
    /\ fsDirs = {}
    /\ fsFiles = <<>>
    /\ writes = <<>>
    /\ results = <<>>
    /\ ret = "running"

\* the sequences over A of length at most n
SeqsUpTo(A, n) == UNION {[1..k -> A] : k \in 0..n}

\* the longest title tried
MaxTitleLen == 3

SlugAlphabet == {"a", "B", "7", " ", "-", "!"}

SlugDates == {0, Epoch, -86400}

SlugInit ==
    /\ Idle
    /\ step = "generateSlug"
    /\ cur \in {[title |-> t, date |-> d] :
                   t \in SeqsUpTo(SlugAlphabet, MaxTitleLen), d \in SlugDates}

SlugCall ==
    /\ pc = "unit" /\ step = "generateSlug"
    /\ step' = "returned"
    /\ cur' = [title |-> cur.title, date |-> cur.date,
               slug |-> generateSlug(cur.title, cur.date)]
    /\ UNCHANGED <<inputs, postsDir, config, now, pc, idx, fsDirs, fsFiles, writes,
                   results, ret>>

SlugSpec == SlugInit /\ [][SlugCall]_vars

\* the deepest directory of a file tried, and the deepest base directory
MaxDepth == 3

MaxBaseDepth == 1

PathNames == {<<"r","o","o","t">>, <<"2","0","2","5">>, <<"v","a","c","a","t","i","o","n">>}

FileNames == {<<"b","e","a","c","h",".","j","p","g">>, <<"R","E","A","D","M","E">>, <<".","j","p","g">>, <<"x",".","t","a","r",".","g","z">>, <<"p","h","o","t","o",".">>}

\* absolute directories, relative ones, and relative ones that start with ..
DirsUpTo(n) ==
    {Abs(s) : s \in SeqsUpTo(PathNames, n)}
    \cup {Rel0(s) : s \in SeqsUpTo(PathNames, n)}
    \cup {Rel0(<<<<".",".">>>> \o s) : s \in SeqsUpTo(PathNames, n)}

PathInit ==
    /\ Idle
    /\ step = "extractPathComponents"
    /\ cur \in {[filePath |-> JoinSegs(d, <<f>>), baseDir |-> b] :
                   d \in DirsUpTo(MaxDepth), f \in FileNames, b \in DirsUpTo(MaxBaseDepth)}

PathCall ==
    /\ pc = "unit" /\ step = "extractPathComponents"
    /\ step' = "returned"
    /\ cur' = [filePath |-> cur.filePath, baseDir |-> cur.baseDir,
               components |-> extractPathComponents(cur.filePath, cur.baseDir)]
    /\ UNCHANGED <<inputs, postsDir, config, now, pc, idx, fsDirs, fsFiles, writes,
                   results, ret>>

PathSpec == PathInit /\ [][PathCall]_vars

\* the longest container tried
MaxTags == 2

RawValues ==
    {[t |-> "uint16s", v |-> <<>>], [t |-> "uint16s", v |-> <<100>>],
     [t |-> "uint16s", v |-> <<400>>], [t |-> "error"],
     [t |-> "rationals", v |-> <<Rat(8, 0)>>], [t |-> "rationals", v |-> <<Rat(28, 5)>>],
     Str(<<>>)}

TagEntries ==
    {Tag(n, FALSE, r) : n \in {"ISOSpeedRatings", "PhotographicSensitivity"}, r \in RawValues}

Mappings ==
    {<<>>,
     ("iso" :> <<"ISOSpeedRatings", "PhotographicSensitivity">>),
     ("iso" :> <<"PhotographicSensitivity", "ISOSpeedRatings">>),
     ("aperture" :> <<"ISO", "ISOSpeedRatings", "PhotographicSensitivity">>),
     ("iso" :> <<"ISOSpeedRatings">>) @@ ("exposure" :> <<"PhotographicSensitivity">>)}

ExifInit ==
    /\ Idle
    /\ step = "extractExifFields"
    /\ cur \in {[ifd |-> c, exifToTags |-> m] :
                   c \in {NoExif} \cup {Container(s) : s \in SeqsUpTo(TagEntries, MaxTags)},
                   m \in Mappings}

\* extractTags and extractExifFields on the same container and mapping
ExifCall ==
    /\ pc = "unit" /\ step = "extractExifFields"
    /\ step' = "returned"
    /\ \E tags \in extractTags(cur.ifd, cur.exifToTags),
          fields \in extractExifFields(cur.ifd, cur.exifToTags) :
            cur' = [ifd |-> cur.ifd, exifToTags |-> cur.exifToTags,
                    tags |-> tags, fields |-> fields]
    /\ UNCHANGED <<inputs, postsDir, config, now, pc, idx, fsDirs, fsFiles, writes,
                   results, ret>>

ExifSpec == ExifInit /\ [][ExifCall]_vars

(***************************************************************************)
(* expandTemplate called on its own                                        *)
(***************************************************************************)
\* component maps: the example of a template's expansion, the components of
\* /photos/2025/vacation/beach.jpg, those of a file named @ext.jpg, a map
\* with the keys dir1 and dir10, and the empty map
ComponentMaps ==
    {(DirKey(2) :> <<"2","0","2","5">>) @@ (K_basename :> <<"b","e","a","c","h">>),
     (K_filename :> <<"b","e","a","c","h",".","j","p","g">>) @@ (K_basename :> <<"b","e","a","c","h">>) @@ (K_ext :> <<"j","p","g">>)
        @@ (DirKey(1) :> <<"v","a","c","a","t","i","o","n">>) @@ (DirKey(2) :> <<"2","0","2","5">>),
     (K_filename :> <<"@","e","x","t",".","j","p","g">>) @@ (K_basename :> <<"@","e","x","t">>) @@ (K_ext :> <<"j","p","g">>),
     (DirKey(1) :> <<"a">>) @@ (DirKey(10) :> <<"j">>),
     <<>>}

Templates ==
    {<<"@","d","i","r","2"," ","-"," ","@","b","a","s","e","n","a","m","e">>, <<"@","d","i","r","1","/","@","d","i","r","1">>, <<"@","n","o","k","e","y"," ","@","b","a","s","e","n","a","m","e">>, <<"@","d","i","r","1","0">>,
     <<"@","b","a","s","e","n","a","m","e",".","@","e","x","t">>, <<"@","e","x","t","r","a">>, <<"p","l","a","i","n">>, <<>>, <<"@">>, <<"@","@","e","x","t">>,
     <<"@","f","i","l","e","n","a","m","e">>, <<"x","@","d","i","r","1","y">>, <<"@","b","a","s","e","n","a","m","e">>}

ExpandInit ==
    /\ Idle
    /\ step = "expandTemplate"
    /\ cur \in {[template |-> t, components |-> c] : t \in Templates, c \in ComponentMaps}

\* one call: the result is one of those the order of the map's keys allows
ExpandCall ==
    /\ pc = "unit" /\ step = "expandTemplate"
    /\ step' = "returned"
    /\ \E r \in expandTemplate(cur.template, cur.components) :
          cur' = [template |-> cur.template, components |-> cur.components, result |-> r]
    /\ UNCHANGED <<inputs, postsDir, config, now, pc, idx, fsDirs, fsFiles, writes,
                   results, ret>>

ExpandSpec == ExpandInit /\ [][ExpandCall]_vars


(***************************************************************************)
(* formatFriendlyValue called on its own                                   *)
(***************************************************************************)
\* the largest numerator and the largest denominator of the fractions tried
MaxNum == 24

MaxDen == 20

FieldNames == {"aperture", "focal_length", "exposure", "iso"}

\* "%d/%d" of a numerator and a denominator, as formatExifValue writes it
Canonical(n, d) == DecStr(n) \o <<"/">> \o DecStr(d)

\* canonical values: fractions (zero and negative terms included), the
\* examples 28/5 and 200/1, and values that are no fraction, or that only
\* start with one
FriendlyValues ==
    {Canonical(n, d) : n \in -2..MaxNum, d \in -2..MaxDen}
    \cup {Canonical(28, 5), Canonical(200, 1), Canonical(1, 250)}
    \cup {<<>>, <<"a","b","c">>, <<"1","0","0">>, <<"2","8","/","5","a","b","c">>, <<"1","/","2","5","0"," ","s","e","c">>, <<" ","2","8","/","5">>, <<"2","8"," ","/","5">>,
          <<"2","8","/"," ","5">>, <<"+","2","8","/","5">>, <<"2","8","/">>, <<"/","5">>, <<"2","_","8","/","5">>, <<"2","8","/","5","/","2">>, <<"f","/","5",".","6">>}

FriendlyInit ==
    /\ Idle
    /\ step = "formatFriendlyValue"
    /\ cur \in {[fieldName |-> f, value |-> v] : f \in FieldNames, v \in FriendlyValues}

FriendlyCall ==
    /\ pc = "unit" /\ step = "formatFriendlyValue"
    /\ step' = "returned"
    /\ cur' = [fieldName |-> cur.fieldName, value |-> cur.value,
               friendly |-> formatFriendlyValue(cur.fieldName, cur.value)]
    /\ UNCHANGED <<inputs, postsDir, config, now, pc, idx, fsDirs, fsFiles, writes,
                   results, ret>>

FriendlySpec == FriendlyInit /\ [][FriendlyCall]_vars


(***************************************************************************)
(* extractExifFields on mappings with fields that have a friendly form     *)
(***************************************************************************)
\* the longest container tried
MaxFieldTags == 2

FieldEntries ==
    {Tag("FNumber", FALSE, [t |-> "rationals", v |-> <<Rat(28, 5)>>]),
     Tag("FNumber", FALSE, [t |-> "rationals", v |-> <<Rat(8, 0)>>]),
     Tag("ExposureTime", FALSE, [t |-> "rationals", v |-> <<Rat(1, 250)>>]),
     Tag("FocalLength", TRUE, [t |-> "rationals", v |-> <<Rat(200, 1)>>]),
     Tag("ISOSpeedRatings", FALSE, [t |-> "uint16s", v |-> <<100>>]),
     Tag("Model", TRUE, Str(<<"2","8","/","5">>))}

\* mappings of a config file; in the last one a logical field has the name
\* of another field's friendly entry
FieldMappings ==
    {("aperture" :> <<"FNumber">>),
     ("aperture" :> <<"FNumber">>) @@ ("iso" :> <<"ISOSpeedRatings">>),
     ("exposure" :> <<"ExposureTime">>) @@ ("focal_length" :> <<"FocalLength">>),
     ("camera" :> <<"Model">>) @@ ("focal_length" :> <<"FNumber", "FocalLength">>),
     ("aperture" :> <<"FNumber">>) @@ ("aperture_friendly" :> <<"ISOSpeedRatings">>)}

FieldsInit ==
    /\ Idle
    /\ step = "extractExifFields"
    /\ cur \in {[ifd |-> Container(s), exifToTags |-> m] :
                   s \in SeqsUpTo(FieldEntries, MaxFieldTags), m \in FieldMappings}

FieldsCall ==
    /\ pc = "unit" /\ step = "extractExifFields"
    /\ step' = "returned"
    /\ \E fields \in extractExifFields(cur.ifd, cur.exifToTags) :
          cur' = [ifd |-> cur.ifd, exifToTags |-> cur.exifToTags, exifFields |-> fields]
    /\ UNCHANGED <<inputs, postsDir, config, now, pc, idx, fsDirs, fsFiles, writes,
                   results, ret>>

FieldsSpec == FieldsInit /\ [][FieldsCall]_vars


(***************************************************************************)
(* createThumbnail: the dimensions of the thumbnail                        *)
(***************************************************************************)
\* maxWidth and maxHeight of the call in processSinglePhoto
ThumbMax == 800

\* widths and heights of the source images tried
SideValues == {1, 2, 3, 400, 799, 800, 801, 802, 1200, 1600, 1601, 2400, 4000}

\* int(x) of a float64 x computed for the quotient a/b, where ratioExact
\* says that the aspect ratio the quotient was computed from has no
\* rounding error: a quotient that is no integer is cut, one that is an
\* integer can come out just below it
IntOfQuotient(a, b, ratioExact) ==
    IF a % b # 0 \/ ratioExact THEN {a \div b} ELSE {a \div b, (a \div b) - 1}

\* imaging.Resize: a side given as 0 keeps the aspect ratio, one pixel at least
Resize(srcW, srcH, dstW, dstH) ==
    LET round(a, b) == (2 * a + b) \div (2 * b)
        atLeast1(n) == IF n < 1 THEN 1 ELSE n
        w == IF dstW = 0 THEN atLeast1(round(dstH * srcW, srcH)) ELSE dstW
        h == IF dstH = 0 THEN atLeast1(round(w * srcH, srcW)) ELSE dstH
    IN  [w |-> w, h |-> h]

\* imaging.Fit: the sizes it can resize to
Fit(srcW, srcH, maxW, maxH) ==
    IF srcW <= maxW /\ srcH <= maxH THEN {[w |-> srcW, h |-> srcH]}
    ELSE IF srcW * maxH > maxW * srcH
    THEN {Resize(srcW, srcH, maxW, newH) :
             newH \in IntOfQuotient(maxW * srcH, srcW, srcW % srcH = 0)}
    ELSE {Resize(srcW, srcH, newW, maxH) :
             newW \in IntOfQuotient(maxH * srcW, srcH, srcW = srcH)}

\* a thumbnail that is resized only when both sides are too large
createThumbnail_both(width, height, maxWidth, maxHeight) ==
    IF width > maxWidth /\ height > maxHeight
    THEN Fit(width, height, maxWidth, maxHeight)
    ELSE {[w |-> width, h |-> height]}

\* createThumbnail: the sizes of the image it saves
createThumbnail(width, height, maxWidth, maxHeight) ==
    IF width > maxWidth \/ height > maxHeight
    THEN Fit(width, height, maxWidth, maxHeight)
    ELSE {[w |-> width, h |-> height]}

ThumbInit ==
    /\ Idle
    /\ step = "createThumbnail"
    /\ cur \in {[width |-> w, height |-> h] : w \in SideValues, h \in SideValues}

ThumbCall ==
    /\ pc = "unit" /\ step = "createThumbnail"
    /\ step' = "returned"
    /\ \E t \in createThumbnail(cur.width, cur.height, ThumbMax, ThumbMax) :
          cur' = [width |-> cur.width, height |-> cur.height, thumb |-> t]
    /\ UNCHANGED <<inputs, postsDir, config, now, pc, idx, fsDirs, fsFiles, writes,
                   results, ret>>

ThumbSpec == ThumbInit /\ [][ThumbCall]_vars


(***************************************************************************)
(* formatExifValue on the raw values a decoder produces                    *)
(***************************************************************************)
\* the longest array tried
MaxRawLen == 2

FormatValues ==
    {Str(s) : s \in {<<>>, <<"a">>, <<"2","8","/","5">>}}
    \cup {[t |-> "strings", v |-> v] : v \in SeqsUpTo({<<>>, <<"a">>, <<"4","0","0">>}, MaxRawLen)}
    \cup {[t |-> "uint16s", v |-> v] : v \in SeqsUpTo({0, 7, 100}, MaxRawLen)}
    \cup {[t |-> "ints", v |-> v] : v \in SeqsUpTo({-3, 0, 100}, MaxRawLen)}
    \cup {[t |-> "uint32s", v |-> v] : v \in SeqsUpTo({0, 7, 4000}, MaxRawLen)}
    \cup {[t |-> "rationals", v |-> v] :
             v \in SeqsUpTo({Rat(n, d) : n \in {0, 28}, d \in {0, 5}}, MaxRawLen)}
    \cup {[t |-> "srationals", v |-> v] :
             v \in SeqsUpTo({Rat(n, d) : n \in {-1, 28}, d \in {0, -5}}, MaxRawLen)}

FormatInit ==
    /\ Idle
    /\ step = "formatExifValue"
    /\ cur \in {[valueRaw |-> r] : r \in FormatValues}

FormatCall ==
    /\ pc = "unit" /\ step = "formatExifValue"
    /\ step' = "returned"
    /\ cur' = [valueRaw |-> cur.valueRaw, value |-> formatExifValue(cur.valueRaw)]
    /\ UNCHANGED <<inputs, postsDir, config, now, pc, idx, fsDirs, fsFiles, writes,
                   results, ret>>

FormatSpec == FormatInit /\ [][FormatCall]_vars


(***************************************************************************)
(* Properties                                                              *)
(***************************************************************************)
\* the entries the walk hands to processSinglePhoto
ImageEntries == {i \in DOMAIN tree : ~tree[i].isDir /\ isImageFile(tree[i].path)}

\* the file system calls of the photo at entry i, and what its call returned
CallsOf(i) == SelectSeq(writes, LAMBDA w : w.photo = i)

ResultsOf(i) == SelectSeq(results, LAMBDA r : r.photo = i)

\* processDirectory has returned and the walk itself reported no error
BatchFinished ==
    /\ pc = "done"
    /\ tree[1].isDir
    /\ ret # "error accessing path"
    /\ \A i \in DOMAIN tree : ~tree[i].err

\* processSinglePhoto has computed its values and is at an output step
Resolved == pc \in {"walk", "single"} /\ step \in {"mkdir", "copy", "thumb", "doc"}

\* processSinglePhoto has just computed its values (title, date, slug, tags,
\* fields): they are locals that no later step assigns
JustResolved == pc \in {"walk", "single"} /\ step = "mkdir"

\* a pure function called on its own has returned
Returned == pc = "unit" /\ step = "returned"

Min(S) == CHOOSE x \in S : \A y \in S : x <= y

RECURSIVE Concat(_)
Concat(ss) == IF ss = <<>> THEN <<>> ELSE Head(ss) \o Concat(Tail(ss))

\* the sequences that take one member from each set of a sequence of sets
Picks(sets) ==
    {f \in [DOMAIN sets -> UNION Range(sets)] : \A i \in DOMAIN sets : f[i] \in sets[i]}

\* C1: in a batch run a photo's failure is only logged: every image file the
\* walk delivers is processed (exactly one call, which reached its first
\* output step), a photo whose own steps all succeed gets its document and a
\* nil result, and processDirectory returns nil
C1_BatchContinues ==
    BatchFinished =>
        /\ ret = ""
        /\ \A i \in ImageEntries :
              /\ Len(ResultsOf(i)) = 1
              /\ Len(CallsOf(i)) >= 1
              /\ (\A k \in DOMAIN CallsOf(i) : CallsOf(i)[k].outcome = "ok")
                    => /\ ResultsOf(i)[1].err = ""
                       /\ \E k \in DOMAIN CallsOf(i) : CallsOf(i)[k].op = "doc"

\* a batch whose first photo failed and whose two later photos got posts
C1_Witness ==
    /\ BatchFinished
    /\ \E i, j, k \in ImageEntries :
          /\ i < j /\ j < k
          /\ ResultsOf(i)[1].err # ""
          /\ ResultsOf(j)[1].err = ""
          /\ ResultsOf(k)[1].err = ""

\* C2: two distinct photos of a run never write to the same path (post
\* directory, copied image, thumbnail, document), and no document is written
\* a second time; a call that failed before it created anything wrote nothing
C2_OwnSubtree ==
    LET made == {a \in DOMAIN writes : writes[a].outcome # "fail"}
    IN  /\ \A a, b \in made :
              writes[a].photo # writes[b].photo => writes[a].path # writes[b].path
        /\ \A a, b \in made :
              (a # b /\ writes[a].op = "doc" /\ writes[b].op = "doc")
                 => writes[a].path # writes[b].path

\* the positions of the entries of the container that give tag name a
\* non-empty normalized value
UsableAt(ifd, name) ==
    {k \in DOMAIN ifd.tags :
        /\ ifd.tags[k].name = name
        /\ ifd.tags[k].raw.t # "error"
        /\ formatExifValue(ifd.tags[k].raw) # <<>>}

\* the candidates of a logical field that are present with a non-empty value
UsableCandidates(ifd, cands) == {i \in DOMAIN cands : UsableAt(ifd, cands[i]) # {}}

\* the value of the first usable candidate
ValueByOrder(ifd, cands) ==
    formatExifValue(ifd.tags[Min(UsableAt(ifd, cands[Min(UsableCandidates(ifd, cands))]))].raw)

\* C3: every logical field resolves to the value of the first candidate, in
\* listed order, that is present with a non-empty normalized value, in
\* extractExifFields and (in its friendly form) in extractTags; a field with
\* no such candidate resolves to nothing
C3_CandidateOrder ==
    (Returned /\ "fields" \in DOMAIN cur /\ ~cur.ifd.absent) =>
        LET resolving == {f \in DOMAIN cur.exifToTags :
                             UsableCandidates(cur.ifd, cur.exifToTags[f]) # {}}
        IN  /\ DOMAIN cur.fields \cap DOMAIN cur.exifToTags = resolving
            /\ \A f \in resolving :
                  cur.fields[f] = ValueByOrder(cur.ifd, cur.exifToTags[f])
            /\ Range(cur.tags) =
                  {formatFriendlyValue(f, ValueByOrder(cur.ifd, cur.exifToTags[f])) :
                      f \in resolving}

\* the container lists the second candidate (400) before the first (100):
\* the first candidate of the mapping wins
C3_Witness ==
    /\ Returned
    /\ "fields" \in DOMAIN cur
    /\ cur.exifToTags = ("iso" :> <<"ISOSpeedRatings", "PhotographicSensitivity">>)
    /\ cur.ifd = Container(<<Tag("PhotographicSensitivity", FALSE, [t |-> "uint16s", v |-> <<400>>]),
                             Tag("ISOSpeedRatings", FALSE, [t |-> "uint16s", v |-> <<100>>])>>)
    /\ cur.fields["iso"] = <<"1","0","0">>
    /\ cur.tags = <<<<"1","0","0">>>>

StepErrors ==
    {"error creating post directory", "error copying image",
     "error creating thumbnail", "error creating markdown file"}

\* C4: without a metadata container (decoding failed, or gave none)
\* processSinglePhoto goes on: the date is the clock's reading, the tags are
\* those of the command line and of the config's templates only, the title
\* comes from the flag or the config's template, there are no extra fields,
\* and the call reaches the output steps
C4_NoMetadata ==
    /\ (JustResolved /\ ExifDataOf(cur.file).absent) =>
          /\ cur.postDate = now
          /\ cur.exifTags = <<>>
          /\ cur.exifFields = <<>>
          /\ cur.tags \in {c \o g : c \in CliTags(extraTags, cur.pathComponents),
                                    g \in ConfigTags(config.Metadata.Tags, cur.pathComponents)}
          /\ cur.finalTitle \in FinalTitles(title, config, cur.pathComponents)
    /\ \A k \in DOMAIN results :
          ExifDataOf(tree[results[k].photo]).absent =>
             /\ results[k].err \in StepErrors \cup {""}
             /\ \E a \in DOMAIN writes :
                   writes[a].photo = results[k].photo /\ writes[a].op = "mkdir"

\* a photo whose metadata could not be decoded got its post, with tags
C4_Witness ==
    \E k \in DOMAIN results :
        /\ tree[results[k].photo].exifErr
        /\ results[k].err = ""
        /\ \E p \in DOMAIN fsFiles :
              /\ fsFiles[p].photo = results[k].photo
              /\ "Tags" \in DOMAIN fsFiles[p].content
              /\ fsFiles[p].content.Tags # <<>>
              /\ fsFiles[p].content.Date = now

\* C5: the title is the --title value when it is not empty (expanded when it
\* holds "@", verbatim otherwise), else the expansion of the config's title
\* template when that is not empty, else empty
C5_TitlePrecedence ==
    JustResolved =>
        IF title # <<>>
        THEN IF Contains(title, <<"@">>)
             THEN cur.finalTitle \in expandTemplate(title, cur.pathComponents)
             ELSE cur.finalTitle = title
        ELSE IF config.Metadata.Title # <<>>
             THEN cur.finalTitle \in expandTemplate(config.Metadata.Title, cur.pathComponents)
             ELSE cur.finalTitle = <<>>

\* a literal --title is used although the config has a title template
C5_Witness ==
    /\ JustResolved
    /\ title = <<"M","y"," ","P","i","c","!">>
    /\ config.Metadata.Title # <<>>
    /\ cur.finalTitle = <<"M","y"," ","P","i","c","!">>

\* what the i-th --tags value, and the i-th template of the config, stand for
CliEntry(i) ==
    IF Contains(extraTags[i], <<"@">>)
    THEN expandTemplate(extraTags[i], cur.pathComponents)
    ELSE {extraTags[i]}

ConfigEntry(i) == expandTemplate(config.Metadata.Tags[i], cur.pathComponents)

\* C6, as claimed: the tag list is the tags from the metadata, then one entry
\* for each --tags value, then one entry for each template of the config
C6_OneEntryEach ==
    JustResolved =>
        \E c \in Picks([i \in DOMAIN extraTags |-> CliEntry(i)]),
           g \in Picks([i \in DOMAIN config.Metadata.Tags |-> ConfigEntry(i)]) :
             cur.tags = cur.exifTags \o c \o g

\* C6, amended: the tag list is the tags from the metadata, then the entries
\* of the --tags values, then those of the config's templates, in this order
\* and with duplicates kept; a --tags value without "@" gives itself, one
\* with "@" gives its expansion, a template gives its expansion, and an
\* expansion that is empty gives no entry
C6_EmptyExpansionsDropped ==
    JustResolved =>
        \E c \in Picks([i \in DOMAIN extraTags |-> CliEntry(i)]),
           g \in Picks([i \in DOMAIN config.Metadata.Tags |-> ConfigEntry(i)]) :
             cur.tags =
                cur.exifTags
                \o Concat([i \in DOMAIN c |->
                             IF Contains(extraTags[i], <<"@">>) /\ c[i] = <<>>
                             THEN <<>> ELSE <<c[i]>>])
                \o Concat([i \in DOMAIN g |-> IF g[i] = <<>> THEN <<>> ELSE <<g[i]>>])

\* a photo whose tags were just merged: a --tags value expanded to nothing and
\* gave no entry, and a tag of the metadata is there a second time
C6_Witness ==
    /\ JustResolved
    /\ cur.exifTags # <<>>
    /\ Len(cur.tags) < Len(cur.exifTags) + Len(extraTags) + Len(config.Metadata.Tags)
    /\ \E i, j \in DOMAIN cur.tags : i # j /\ cur.tags[i] = cur.tags[j]

\* C7: the slug of a slug is that slug
C7_SlugIdempotent ==
    (Returned /\ "slug" \in DOMAIN cur) => generateSlug(cur.slug, cur.date) = cur.slug

SlugRunes == Range(Lower) \cup Range(Digits) \cup {"-"}

\* what one character of a title leaves in the slug
SlugOfRune(c) ==
    IF c = " " THEN <<"-">>
    ELSE IF ToLowerRune(c) \in SlugRunes THEN <<ToLowerRune(c)>>
    ELSE <<>>

\* the number a decimal numeral with an optional minus sign writes
IntOf(ds) == IF ds # <<>> /\ Head(ds) = "-" THEN -NatOf(Tail(ds)) ELSE NatOf(ds)

\* C8: the slug of a non-empty title is the title, character by character:
\* a space gives a hyphen, a character whose lower case is in [a-z0-9-]
\* gives that lower case, any other character gives nothing; the slug of an
\* empty title is "photo-" and the Unix seconds of the date
C8_SlugRule ==
    (Returned /\ "slug" \in DOMAIN cur) =>
        IF cur.title # <<>>
        THEN /\ cur.slug = Concat([i \in DOMAIN cur.title |-> SlugOfRune(cur.title[i])])
             /\ Range(cur.slug) \subseteq SlugRunes
        ELSE /\ Len(cur.slug) > 6
             /\ SubSeq(cur.slug, 1, 6) = <<"p","h","o","t","o","-">>
             /\ \A i \in 7..Len(cur.slug) : cur.slug[i] \in Range(Digits) \cup {"-"}
             /\ IntOf(SubSeq(cur.slug, 7, Len(cur.slug))) = cur.date

\* an upper case letter, a space and a character that is dropped
C8_Witness ==
    /\ Returned
    /\ "slug" \in DOMAIN cur
    /\ cur.title = <<"B"," ","!">>
    /\ cur.slug = <<"b","-">>

\* C9: extractPathComponents numbers the directory segments of the file's
\* path relative to the base from the file outward: with k segments s1..sk
\* the keys are dir1..dirk, no other dirN, and dir_i = s_(k-i+1); a file
\* directly under the base has no dirN; filename, basename and ext (without
\* its dot, empty when the name has none) are always there
C9_PathComponents ==
    (Returned /\ "components" \in DOMAIN cur) =>
        LET c    == cur.components
            dir  == Dir(cur.filePath)
            rel  == FilepathRel(cur.baseDir, dir)
            k    == IF rel.err THEN 0 ELSE Len(rel.segs)
            name == Base(cur.filePath)
            under == /\ dir.abs = cur.baseDir.abs
                     /\ HasPrefix(dir.segs, cur.baseDir.segs)
                     /\ \A i \in DOMAIN dir.segs : dir.segs[i] # <<".",".">>
        IN  /\ DOMAIN c = {K_filename, K_basename, K_ext} \cup {DirKey(i) : i \in 1..k}
            /\ \A i \in 1..k : c[DirKey(i)] = rel.segs[k - i + 1]
            /\ under =>
                  /\ k = Len(dir.segs) - Len(cur.baseDir.segs)
                  /\ \A i \in 1..k : c[DirKey(i)] = dir.segs[Len(dir.segs) - i + 1]
            /\ dir = cur.baseDir => k = 0
            /\ c[K_filename] = name
            /\ ~Contains(c[K_ext], <<".">>)
            /\ IF Contains(name, <<".">>)
               THEN c[K_basename] \o <<".">> \o c[K_ext] = name
               ELSE c[K_basename] = name /\ c[K_ext] = <<>>

\* base=/root, file=/root/2025/vacation/beach.jpg
C9_Witness ==
    /\ Returned
    /\ "components" \in DOMAIN cur
    /\ cur.baseDir = Abs(<<<<"r","o","o","t">>>>)
    /\ cur.filePath = Abs(<<<<"r","o","o","t">>, <<"2","0","2","5">>, <<"v","a","c","a","t","i","o","n">>, <<"b","e","a","c","h",".","j","p","g">>>>)
    /\ cur.components = (DirKey(1) :> <<"v","a","c","a","t","i","o","n">> @@ DirKey(2) :> <<"2","0","2","5">>
                         @@ K_basename :> <<"b","e","a","c","h">> @@ K_ext :> <<"j","p","g">>
                         @@ K_filename :> <<"b","e","a","c","h",".","j","p","g">>)

\* C10: in processSinglePhoto the components that expand the title and tag
\* templates have dir1 = the directory that holds the photo, dir2 = its
\* parent, and so on outward, whatever the posts directory is; the title
\* template "@dir2 @dir1 - @basename" on .../2025/vacation/beach.jpg gives
\* "2025 vacation - beach"
C10_DirsOfPhoto ==
    Resolved =>
        LET d == Dir(cur.path).segs
            k == Len(d)
        IN  /\ \A i \in 1..k :
                  /\ DirKey(i) \in DOMAIN cur.pathComponents
                  /\ cur.pathComponents[DirKey(i)] = d[k - i + 1]
            /\ (/\ title = <<"@","d","i","r","2"," ","@","d","i","r","1"," ","-"," ","@","b","a","s","e","n","a","m","e">>
                /\ cur.path = Abs(<<<<"p","h","o","t","o","s">>, <<"2","0","2","5">>, <<"v","a","c","a","t","i","o","n">>, <<"b","e","a","c","h",".","j","p","g">>>>))
                  => cur.finalTitle = <<"2","0","2","5"," ","v","a","c","a","t","i","o","n"," ","-"," ","b","e","a","c","h">>

\* the keys of a components map whose placeholder stands at position i of s
KeysAt(s, i, components) ==
    {k \in DOMAIN components :
        /\ i + Len(k) <= Len(s)
        /\ SubSeq(s, i, i + Len(k)) = <<"@">> \o k}

\* the longest of a set of keys
Longest(K) == CHOOSE k \in K : \A j \in K : Len(j) <= Len(k)

\* one pass over the template from position i: a placeholder of a key gives
\* the key's value, any other text gives itself
RECURSIVE Substitute(_, _, _)
Substitute(s, i, components) ==
    IF i > Len(s) THEN <<>>
    ELSE IF KeysAt(s, i, components) # {}
         THEN LET k == Longest(KeysAt(s, i, components))
              IN  components[k] \o Substitute(s, i + Len(k) + 1, components)
         ELSE <<s[i]>> \o Substitute(s, i + 1, components)

\* C11: expandTemplate puts the value of each key in the place of every
\* occurrence of "@"+key, and leaves every other text of the template,
\* placeholders of unknown names included, as it is
C11_ExpandsEveryKey ==
    (Returned /\ "result" \in DOMAIN cur) =>
        cur.result = Substitute(cur.template, 1, cur.components)

\* a components map where no key is the start of another key
PrefixFree(components) ==
    \A k, j \in DOMAIN components : k # j => ~HasPrefix(j, k)

\* C12: a value that holds the text "@"+key of some key is not expanded
\* again: where the template has the placeholder of that value's key, the
\* result has the value verbatim
C12_SingleGeneration ==
    (Returned /\ "result" \in DOMAIN cur /\ PrefixFree(cur.components)) =>
        \A k \in DOMAIN cur.components :
            (/\ Contains(cur.template, <<"@">> \o k)
             /\ \E j \in DOMAIN cur.components :
                   Contains(cur.components[k], <<"@">> \o j))
               => Contains(cur.result, cur.components[k])

\* a decimal numeral: an optional sign and one digit or more
IsNumeral(s) ==
    LET digits == IF s # <<>> /\ Head(s) \in {"-", "+"} THEN Tail(s) ELSE s
    IN  digits # <<>> /\ \A i \in DOMAIN digits : IsDigit(digits[i])

\* the number a numeral writes
NumeralVal(s) == IF Head(s) = "+" THEN NatOf(Tail(s)) ELSE IntOf(s)

\* the positions of "/" in a value
Slashes(s) == {i \in DOMAIN s : s[i] = "/"}

\* the whole value is <integer>/<integer> with a denominator that is not zero
IsFraction(s) ==
    /\ Cardinality(Slashes(s)) = 1
    /\ LET i == CHOOSE j \in Slashes(s) : TRUE
       IN  /\ IsNumeral(SubSeq(s, 1, i - 1))
           /\ IsNumeral(SubSeq(s, i + 1, Len(s)))
           /\ NumeralVal(SubSeq(s, i + 1, Len(s))) # 0

Numerator(s) == NumeralVal(SubSeq(s, 1, (CHOOSE j \in Slashes(s) : TRUE) - 1))

Denominator(s) == NumeralVal(SubSeq(s, (CHOOSE j \in Slashes(s) : TRUE) + 1, Len(s)))

\* C13: formatFriendlyValue returns the value unchanged whenever the whole
\* value is not <integer>/<integer> with a non-zero denominator, for every
\* field name (a value that only starts with such a fraction included)
C13_IdentityOnNonFractions ==
    (Returned /\ "friendly" \in DOMAIN cur) =>
        (~IsFraction(cur.value) => cur.friendly = cur.value)

\* x is a numeral with one decimal that is n/d rounded to one decimal: it is
\* within one twentieth of n/d
IsOneDecimalOf(x, n, d) ==
    /\ Len(x) >= 3
    /\ x[Len(x) - 1] = "."
    /\ IsDigit(x[Len(x)])
    /\ LET int  == SubSeq(x, 1, Len(x) - 2)
           neg  == Head(int) = "-"
           mag  == IF neg THEN Tail(int) ELSE int
           m    == 10 * NatOf(mag) + DigitVal(x[Len(x)])
           sm   == IF neg THEN -m ELSE m
       IN  /\ mag # <<>>
           /\ \A i \in DOMAIN mag : IsDigit(mag[i])
           /\ 2 * AbsVal(sm * d - 10 * n) <= AbsVal(d)
           /\ neg => (n < 0) # (d < 0)

\* C14: for a canonical value n/d with d # 0, aperture gives "f/" and n/d
\* rounded to one decimal, focal_length gives n/d rounded to one decimal and
\* "mm", exposure gives the fraction and "s" whatever the numerator, and any
\* other field name gives the value itself; ("aperture", "28/5") gives
\* "f/5.6" and ("focal_length", "200/1") gives "200.0mm"
C14_FriendlyFormats ==
    (Returned /\ "friendly" \in DOMAIN cur /\ IsFraction(cur.value)
       /\ cur.value = Canonical(Numerator(cur.value), Denominator(cur.value))) =>
        LET n == Numerator(cur.value)
            d == Denominator(cur.value)
            r == cur.friendly
        IN  /\ cur.fieldName = "aperture" =>
                  /\ Len(r) > 2 /\ SubSeq(r, 1, 2) = <<"f","/">>
                  /\ IsOneDecimalOf(SubSeq(r, 3, Len(r)), n, d)
            /\ cur.fieldName = "focal_length" =>
                  /\ Len(r) > 2 /\ SubSeq(r, Len(r) - 1, Len(r)) = <<"m","m">>
                  /\ IsOneDecimalOf(SubSeq(r, 1, Len(r) - 2), n, d)
            /\ cur.fieldName = "exposure" => r = cur.value \o <<"s">>
            /\ cur.fieldName \notin {"aperture", "focal_length", "exposure"} => r = cur.value
            /\ (cur.fieldName = "aperture" /\ cur.value = <<"2","8","/","5">>) => r = <<"f","/","5",".","6">>
            /\ (cur.fieldName = "focal_length" /\ cur.value = <<"2","0","0","/","1">>) => r = <<"2","0","0",".","0","m","m">>

\* an aperture whose quotient has to be rounded up: 7/4 gives f/1.8
C14_Witness ==
    /\ Returned
    /\ "friendly" \in DOMAIN cur
    /\ cur.fieldName = "aperture"
    /\ cur.value = <<"7","/","4">>
    /\ cur.friendly = <<"f","/","1",".","8">>

\* C15: in the result of extractExifFields every resolved logical field has
\* its canonical value under its own name, and the entry <name>_friendly is
\* there exactly when the friendly value differs from the canonical one, and
\* then holds the friendly value; no friendly entry takes the place of the
\* canonical value of a logical field
C15_FriendlySiblings ==
    (Returned /\ "exifFields" \in DOMAIN cur) =>
        \A f \in DOMAIN cur.exifToTags :
            UsableCandidates(cur.ifd, cur.exifToTags[f]) # {} =>
                LET canonical == ValueByOrder(cur.ifd, cur.exifToTags[f])
                    friendly  == formatFriendlyValue(f, canonical)
                    sibling   == f \o "_friendly"
                IN  /\ f \in DOMAIN cur.exifFields
                    /\ cur.exifFields[f] = canonical
                    /\ (sibling \in DOMAIN cur.exifFields) <=> (friendly # canonical)
                    /\ friendly # canonical => cur.exifFields[sibling] = friendly

OutputSteps == <<"mkdir", "copy", "thumb", "doc">>

\* the error processSinglePhoto returns when an output step fails
StepError(op) ==
    CASE op = "mkdir" -> "error creating post directory"
      [] op = "copy"  -> "error copying image"
      [] op = "thumb" -> "error creating thumbnail"
      [] op = "doc"   -> "error creating markdown file"

\* C16: the output steps of a photo are fail-stop: they run in the order
\* directory, copy, thumbnail, document, a step runs only after all the
\* steps before it succeeded, a failed step is the photo's last and the
\* error returned names it, and nil is returned only after all four
\* succeeded
C16_FailStop ==
    /\ \A k \in DOMAIN results :
          LET calls == CallsOf(results[k].photo)
              n     == Len(calls)
          IN  /\ n \in 1..4
              /\ \A j \in 1..n : calls[j].op = OutputSteps[j]
              /\ \A j \in 1..(n - 1) : calls[j].outcome = "ok"
              /\ IF calls[n].outcome = "ok"
                 THEN n = 4 /\ results[k].err = ""
                 ELSE results[k].err = StepError(calls[n].op)
    /\ Resolved =>
          LET calls == CallsOf(cur.photo)
          IN  /\ Len(calls) < 4
              /\ step = OutputSteps[Len(calls) + 1]
              /\ \A j \in DOMAIN calls :
                    calls[j].op = OutputSteps[j] /\ calls[j].outcome = "ok"

\* a photo whose thumbnail failed: three steps were made, the third is the
\* last, and the error names it
C16_Witness ==
    \E k \in DOMAIN results :
        /\ results[k].err = "error creating thumbnail"
        /\ Len(CallsOf(results[k].photo)) = 3
        /\ CallsOf(results[k].photo)[3].outcome # "ok"

\* the directory posts_root/[relative_subdir/]slug of the running photo
PostDirOfPhoto ==
    JoinSegs(postsDir, (IF cur.relativeDir # <<>> THEN cur.relativeDir ELSE <<>>)
                       \o <<cur.slug>>)

\* C17: when processSinglePhoto returns nil the photo has made exactly three
\* files, all in posts_root/[relative_subdir/]slug (the subdirectory level
\* only for a non-empty relative directory): <slug>.md, a copy with the
\* original file name and <basename>-thumb<ext>; the document's image, thumb
\* and attached fields name the copy and the thumbnail
C17_ThreeFiles ==
    [][(step = "doc" /\ Len(results') = Len(results) + 1
          /\ results'[Len(results')].err = "")
        => LET d        == PostDirOfPhoto
               name     == Base(cur.path)
               dot      == LastDot(name)
               stem     == IF dot = 0 THEN name ELSE SubSeq(name, 1, dot - 1)
               ext      == IF dot = 0 THEN <<>> ELSE SubSeq(name, dot, Len(name))
               thumb    == stem \o <<"-","t","h","u","m","b">> \o ext
               copyPath == [d EXCEPT !.segs = d.segs \o <<name>>]
               thPath   == [d EXCEPT !.segs = d.segs \o <<thumb>>]
               docPath  == [d EXCEPT !.segs = d.segs \o <<cur.slug \o <<".","m","d">>>>]
               mine     == SelectSeq(writes', LAMBDA w : w.photo = cur.photo)
           IN  /\ Len(mine) = 4
               /\ mine[1].path = d
               /\ {mine[j].path : j \in 2..4} = {copyPath, thPath, docPath}
               /\ Cardinality({copyPath, thPath, docPath}) = 3
               /\ {p \in DOMAIN fsFiles' : fsFiles'[p].photo = cur.photo}
                     = {copyPath, thPath, docPath}
               /\ d \in fsDirs'
               /\ fsFiles'[docPath].content.Image = name
               /\ fsFiles'[docPath].content.Thumb = thumb
               /\ fsFiles'[docPath].content.Attached = <<name, thumb>>
               /\ fsFiles'[copyPath].content = [image |-> cur.path]
      ]_vars

\* beach/sunset.JPG of the walked tree has its post, one level below the
\* posts directory's beach/
C17_Witness ==
    \E k \in DOMAIN results :
        /\ results[k].err = ""
        /\ tree[results[k].photo].path
              = JoinSegs(VacationDir, <<T_beach, <<"s","u","n","s","e","t",".","J","P","G">>>>)
        /\ \E p \in DOMAIN fsFiles :
              /\ fsFiles[p].photo = results[k].photo
              /\ "Thumb" \in DOMAIN fsFiles[p].content
              /\ fsFiles[p].content.Thumb = <<"s","u","n","s","e","t","-","t","h","u","m","b",".","J","P","G">>
              /\ Len(p.segs) >= 3
              /\ p.segs[Len(p.segs) - 2] = T_beach

\* the extensions of the allow-list, without the dot
AllowedExtensions ==
    {<<"j","p","g">>, <<"j","p","e","g">>, <<"p","n","g">>, <<"g","i","f">>, <<"b","m","p">>, <<"t","i","f","f">>, <<"t","i","f">>, <<"w","e","b","p">>}

\* what follows the last dot of the last segment of a path, in lower case
LowerExtension(path) ==
    LET name == path.segs[Len(path.segs)]
        dots == {i \in DOMAIN name : name[i] = "."}
    IN  IF dots = {} THEN <<>>
        ELSE LET d == CHOOSE i \in dots : \A j \in dots : j <= i
             IN  [i \in 1..(Len(name) - d) |-> ToLowerRune(name[d + i])]

\* the regular files of the tree that have an extension of the allow-list
AllowedFiles ==
    {i \in DOMAIN tree :
        /\ ~tree[i].isDir
        /\ \E j \in DOMAIN tree[i].path.segs[Len(tree[i].path.segs)] :
              tree[i].path.segs[Len(tree[i].path.segs)][j] = "."
        /\ LowerExtension(tree[i].path) \in AllowedExtensions}

\* the directories between the root of the walk and entry i
DirsBelowRoot(i) ==
    SubSeq(tree[i].path.segs, Len(tree[1].path.segs) + 1, Len(tree[i].path.segs) - 1)

\* C18: in a batch processSinglePhoto is called once for every regular file
\* under the root whose extension, case folded, is in the allow-list, never
\* for a directory or another file; each call gets the file's directory
\* relative to the root, empty for a file in the root itself
C18_WalkCalls ==
    tree[1].isDir =>
        LET allowed == AllowedFiles
            called  == {results[k].photo : k \in DOMAIN results}
        IN  /\ called \subseteq allowed
            /\ Cardinality(called) = Len(results)
            /\ {writes[a].photo : a \in DOMAIN writes} \subseteq allowed
            /\ (pc = "walk" /\ step # "none") =>
                  /\ cur.photo \in allowed
                  /\ cur.photo = idx
                  /\ cur.path = tree[idx].path
                  /\ cur.relativeDir = DirsBelowRoot(idx)
                  /\ \A i \in called : i < idx
            /\ BatchFinished => called = allowed

\* the walk of /photos/2025/vacation is over: beach/sunset.JPG, beach.jpg and
\* pier.jpg had their call, notes.txt and the directories had none
C18_Witness ==
    /\ BatchFinished
    /\ tree = TreeVacation
    /\ Len(results) = 3
    /\ \E k \in DOMAIN results :
          tree[results[k].photo].path = JoinSegs(VacationDir, <<T_beach, <<"s","u","n","s","e","t",".","J","P","G">>>>)
    /\ \A k \in DOMAIN results :
          tree[results[k].photo].path # JoinSegs(VacationDir, <<<<"n","o","t","e","s",".","t","x","t">>>>)

\* a string of the form YYYY:MM:DD HH:MM:SS
IsExifTimeFormat(s) ==
    /\ Len(s) = 19
    /\ \A i \in {1, 2, 3, 4, 6, 7, 9, 10, 12, 13, 15, 16, 18, 19} : IsDigit(s[i])
    /\ \A i \in {5, 8, 14, 17} : s[i] = ":"
    /\ s[11] = " "

\* the values the container holds for a tag name, in any of its IFDs
ValuesOf(ifd, tagName) == SelectSeq(ifd.tags, LAMBDA e : e.name = tagName)

\* the date of the claim: DateTime if present, else DateTimeOriginal if
\* present, else the clock; the clock too for a value that is no string of
\* the format or no date
DateOfContainer(ifd, clock) ==
    IF ifd.absent THEN clock
    ELSE LET dt    == ValuesOf(ifd, "DateTime")
             dto   == ValuesOf(ifd, "DateTimeOriginal")
             found == IF dt # <<>> THEN dt ELSE dto
         IN  IF found = <<>> THEN clock
             ELSE IF found[1].raw.t # "string" THEN clock
             ELSE IF ~IsExifTimeFormat(found[1].raw.s) THEN clock
             ELSE IF ~ParseExifTime(found[1].raw.s).ok THEN clock
             ELSE ParseExifTime(found[1].raw.s).unix

\* C19: the post date is the parsed DateTime of the container if it has
\* one, else its parsed DateTimeOriginal if it has one, else the current
\* time; a value that is no string YYYY:MM:DD HH:MM:SS gives the current time
C19_DateDerivation ==
    JustResolved => cur.postDate = DateOfContainer(cur.exifData, now)

\* C20: the thumbnail is never larger than 800x800 and never upscaled: a
\* source of at most 800 in both dimensions keeps its dimensions, a larger
\* one gives a thumbnail of at most 800 in each dimension and in no
\* dimension larger than the source
C20_ThumbnailSize ==
    (Returned /\ "thumb" \in DOMAIN cur) =>
        /\ cur.thumb.w >= 1 /\ cur.thumb.h >= 1
        /\ IF cur.width <= 800 /\ cur.height <= 800
           THEN cur.thumb.w = cur.width /\ cur.thumb.h = cur.height
           ELSE /\ cur.thumb.w <= 800 /\ cur.thumb.h <= 800
                /\ cur.thumb.w <= cur.width /\ cur.thumb.h <= cur.height

\* a source that is too wide only: 1600x400 gives 800x200
C20_Witness ==
    /\ Returned
    /\ "thumb" \in DOMAIN cur
    /\ cur.width = 1600 /\ cur.height = 400
    /\ cur.thumb = [w |-> 800, h |-> 200]

\* C21: formatExifValue gives a single string as it is, the rendering of the
\* first element of a non-empty array of strings or of integers,
\* "<numerator>/<denominator>" of the first element of a non-empty array of
\* rationals, and the empty string for an empty array or a zero denominator
C21_Normalizes ==
    (Returned /\ "valueRaw" \in DOMAIN cur) =>
        LET r == cur.valueRaw
        IN  cur.value =
              IF r.t = "string" THEN r.s
              ELSE IF r.v = <<>> THEN <<>>
              ELSE IF r.t = "strings" THEN r.v[1]
              ELSE IF r.t \in {"uint16s", "ints", "uint32s"} THEN DecStr(r.v[1])
              ELSE IF r.v[1].Denominator = 0 THEN <<>>
              ELSE DecStr(r.v[1].Numerator) \o <<"/">> \o DecStr(r.v[1].Denominator)

\* C22: a configuration file that is missing or malformed does not abort the
\* run: run() goes on with an empty field mapping and no posts_dir, so the
\* posts directory stays the one of the --posts flag (whose default is
\* "posts"), only a failing stat of the input ends it there, and a run that
\* ends without a stat or walk error has processed every image of the input
C22_ConfigOptional ==
    [][/\ (cfgFile.err /\ pc = "start") =>
              /\ config'.ExifToTags = <<>>
              /\ config'.PostsDir = <<>>
              /\ postsDir' = postsDir
              /\ pc' = "done" => ret' = "error accessing path"
       /\ (cfgFile.err /\ pc' = "done"
             /\ ret' \notin {"error accessing path", "error walking directory"}) =>
              \A i \in ImageEntries : \E k \in DOMAIN results' : results'[k].photo = i
      ]_vars

\* a batch run without a configuration file that made a post under the
\* directory of the --posts flag
C22_Witness ==
    /\ cfgFile.err
    /\ pc = "done"
    /\ tree[1].isDir
    /\ postsDir = Abs(<<T_photos>>)
    /\ \E k \in DOMAIN results : results[k].err = ""
    /\ \E k \in DOMAIN writes :
          writes[k].op = "doc" /\ writes[k].outcome = "ok"
          /\ HasPrefix(writes[k].path.segs, <<T_photos>>)

\* the entries the walk reports an error for
WalkErrors == {i \in DOMAIN tree : tree[i].err}

\* C23: a failing stat of the input path ends the run with an error before
\* any photo is processed; an entry the walk itself reports an error for
\* stops the walk: no later entry is processed and the batch returns an error
C23_FatalErrors ==
    /\ ret = "error accessing path" =>
          pc = "done" /\ step = "none" /\ results = <<>> /\ writes = <<>>
    /\ (tree[1].isDir /\ WalkErrors # {}) =>
          LET m == Min(WalkErrors)
          IN  /\ pc = "walk" => idx <= m
              /\ \A k \in DOMAIN results : results[k].photo < m
              /\ \A k \in DOMAIN writes : writes[k].photo < m
              /\ (pc = "done" /\ ret # "error accessing path") =>
                    /\ ret = "error walking directory"
                    /\ \A i \in ImageEntries : i < m => Len(ResultsOf(i)) = 1

\* the walk stopped at an unreadable directory after one photo, with an
\* image left that was never processed
C23_Witness ==
    /\ pc = "done"
    /\ ret = "error walking directory"
    /\ Len(results) = 1
    /\ \E i \in ImageEntries : i > Min(WalkErrors) /\ ResultsOf(i) = <<>>

\* C24: nothing is rolled back and nothing is retried: no step removes a
\* directory or a file, a file changes only by being written, no photo is
\* processed twice and no step of a photo is made twice; a photo whose
\* thumbnail step fails before creating anything returns with its post
\* directory in place and the copied image as the only file it made
C24_NoRollbackNoRetry ==
    [][/\ fsDirs \subseteq fsDirs'
       /\ \A p \in DOMAIN fsFiles :
             /\ p \in DOMAIN fsFiles'
             /\ fsFiles'[p] # fsFiles[p] =>
                   /\ Len(writes') = Len(writes) + 1
                   /\ writes'[Len(writes')].path = p
       /\ \A a, b \in DOMAIN writes' :
             (a # b /\ writes'[a].photo = writes'[b].photo) => writes'[a].op # writes'[b].op
       /\ \A a, b \in DOMAIN results' :
             a # b => results'[a].photo # results'[b].photo
       /\ (Len(results') = Len(results) + 1 /\ writes'[Len(writes')].op = "thumb"
             /\ writes'[Len(writes')].outcome = "fail") =>
             LET i     == results'[Len(results')].photo
                 calls == SelectSeq(writes', LAMBDA w : w.photo = i)
             IN  /\ results'[Len(results')].err = "error creating thumbnail"
                 /\ Len(calls) = 3
                 /\ calls[1].path \in fsDirs'
                 /\ {p \in DOMAIN fsFiles' : fsFiles'[p].photo = i} = {calls[2].path}
                 /\ fsFiles'[calls[2].path].complete
      ]_vars

\* a photo failed at its thumbnail and a later photo got its post: the
\* first photo's copied image is still there, alone
C24_Witness ==
    \E k \in DOMAIN results :
        LET i == results[k].photo
        IN  /\ results[k].err = "error creating thumbnail"
            /\ k < Len(results)
            /\ results[Len(results)].err = ""
            /\ Cardinality({p \in DOMAIN fsFiles : fsFiles[p].photo = i}) = 1
            /\ CallsOf(i)[1].path \in fsDirs
            /\ CallsOf(i)[2].path \in DOMAIN fsFiles

C26_Sequential ==
    /\ \A a \in DOMAIN writes : a > 1 => writes[a - 1].photo <= writes[a].photo
    /\ \A k \in DOMAIN results : k > 1 => results[k - 1].photo < results[k].photo
    /\ \A a \in DOMAIN writes :
          \/ \E k \in DOMAIN results : results[k].photo = writes[a].photo
          \/ step # "none" /\ cur.photo = writes[a].photo
    /\ step \notin {"none", "returned"} =>
          /\ \A k \in DOMAIN results : results[k].photo < cur.photo
          /\ \A a \in DOMAIN writes : writes[a].photo <= cur.photo
    /\ \A a \in DOMAIN writes :
          a > 1 /\ writes[a - 1].photo = writes[a].photo =>
              /\ writes[a - 1].outcome = "ok"
              /\ <<writes[a - 1].op, writes[a].op>> \in
                    {<<"mkdir", "copy">>, <<"copy", "thumb">>, <<"thumb", "doc">>}
    /\ \A a \in DOMAIN writes :
          (a = 1 \/ writes[a - 1].photo # writes[a].photo) => writes[a].op = "mkdir"
    /\ \A a \in DOMAIN writes :
          writes[a].op = "doc" =>
              /\ a > 3
              /\ writes[a - 2].op = "copy" /\ writes[a - 2].photo = writes[a].photo
              /\ writes[a - 1].op = "thumb" /\ writes[a - 1].photo = writes[a].photo
              /\ {writes[a - 2].path, writes[a - 1].path} \subseteq DOMAIN fsFiles

\* two photos of a batch, each with its four steps, one photo after the other
C26_Witness ==
    /\ Len(writes) = 8
    /\ Len(results) = 2
    /\ writes[4].photo # writes[5].photo
    /\ \A a \in DOMAIN writes : writes[a].outcome = "ok"
    /\ writes[4].op = "doc" /\ writes[8].op = "doc"

\* C27: expandTemplate is a function of its arguments: for one template and
\* one components mapping every order in which the keys are visited gives
\* the same string, keys that are prefixes of other keys included
C27_Deterministic ==
    (Returned /\ "result" \in DOMAIN cur) =>
        \A other \in expandTemplate(cur.template, cur.components) : other = cur.result

\* C28: the slug of a processed photo is never empty: the post directory is
\* the directory <slug> one level below posts_root/[relative_subdir] and the
\* document is <slug>.md with a stem that is not empty, for every title
C28_SlugNotEmpty ==
    JustResolved =>
        /\ cur.slug # <<>>
        /\ postDir.segs = postsDir.segs \o cur.relativeDir \o <<cur.slug>>
        /\ Base(mdFile) # <<".","m","d">>

\* C29: the tag list of a written document is the list processSinglePhoto
\* merged, nothing appended to it again: it has at most one entry per --tags
\* value besides those of the metadata and of the config, and with no tags
\* from the metadata or the config it is exactly the entries of the --tags
\* values, in order, one for each value
C29_TagsWrittenOnce ==
    [][(step = "doc" /\ Len(writes') = Len(writes) + 1
          /\ writes'[Len(writes')].outcome # "fail") =>
          LET tags == fsFiles'[writes'[Len(writes')].path].content.Tags
          IN  /\ tags = cur.tags
              /\ Len(tags) <= Len(cur.exifTags) + Len(extraTags) + Len(config.Metadata.Tags)
              /\ (cur.exifTags = <<>> /\ config.Metadata.Tags = <<>>) =>
                    /\ Len(tags) <= Len(extraTags)
                    /\ \E c \in Picks([i \in DOMAIN extraTags |-> CliEntry(i)]) :
                          tags = Concat([i \in DOMAIN c |->
                                           IF c[i] = <<>> THEN <<>> ELSE <<c[i]>>])
      ]_vars

\* a run with --tags travel,@dir1 and no tags from the metadata or the
\* config wrote a document whose tags are travel and the expansion of @dir1
C29_Witness ==
    /\ cfgFile.err
    /\ Len(extraTags) = 2
    /\ extraTags[1] = <<"t","r","a","v","e","l">>
    /\ \E p \in DOMAIN fsFiles :
          /\ "Tags" \in DOMAIN fsFiles[p].content
          /\ Len(fsFiles[p].content.Tags) = 2
          /\ fsFiles[p].content.Tags[1] = <<"t","r","a","v","e","l">>
          /\ ~Contains(fsFiles[p].content.Tags[2], <<"@">>)

====
